---- MODULE Spec2Model ----
(***************************************************************************)
(* k8s-sentinel: a Kubernetes admission webhook.  The model covers the      *)
(* object walker, the four policies, the policy engine, the admission       *)
(* pipeline (handle_webhook / build_response), the metrics counters and     *)
(* the lifecycle of the HTTPS and HTTP servers of main.rs.                  *)
(*                                                                         *)
(* JSON values (serde_json::Value) are tagged records; strings are TLA+     *)
(* strings, so formatting, joining and parsing are computed as the code     *)
(* computes them.  u64 arithmetic is exact: four 16-bit limbs.              *)
(***************************************************************************)
EXTENDS Integers, Sequences, FiniteSets, TLC

VARIABLES cfg, tasks, metrics, server

vars == <<cfg, tasks, metrics, server>>

\* ------------------------------------------------------------------ bounds

\* Longest container list in the generated pod specs.
MaxContainers == 2

\* Requests the HTTPS listener accepts in one run of the server specification.
MaxAccepts == 2

\* ------------------------------------------------------- serde_json::Value

Absent == [t |-> "absent"]
Null == [t |-> "null"]
Str(s) == [t |-> "str", s |-> s]
Num(n) == [t |-> "num", n |-> n]
Arr(a) == [t |-> "arr", a |-> a]
Obj(o) == [t |-> "obj", o |-> o]
EmptyObj == Obj(<<>>)

\* Value::get(&str) chained through Option::and_then: None on a non-object,
\* on a missing key and on None itself.
Get(v, k) == IF v.t = "obj" /\ k \in DOMAIN v.o THEN v.o[k] ELSE Absent

\* .and_then(|r| r.as_object()).is_some_and(|m| !m.is_empty())
NonEmptyObject(v) == v.t = "obj" /\ DOMAIN v.o # {}

IsSome(v) == v.t # "absent"

\* ------------------------------------------------------------ Rust strings

Digits == <<"0", "1", "2", "3", "4", "5", "6", "7", "8", "9">>

IsDigit(c) == \E d \in 1..10 : Digits[d] = c

DigitVal(c) == (CHOOSE d \in 1..10 : Digits[d] = c) - 1

\* str::strip_suffix: the rest when s ends with suf, "none" marked by ok.
EndsWith(s, suf) ==
    Len(s) >= Len(suf) /\ SubSeq(s, Len(s) - Len(suf) + 1, Len(s)) = suf

StripSuffix(s, suf) == SubSeq(s, 1, Len(s) - Len(suf))

StartsWith(s, pre) == Len(s) >= Len(pre) /\ SubSeq(s, 1, Len(pre)) = pre

\* [String]::join(sep)
RECURSIVE Join(_, _)
Join(parts, sep) ==
    IF Len(parts) = 0 THEN ""
    ELSE IF Len(parts) = 1 THEN parts[1]
    ELSE parts[1] \o sep \o Join(Tail(parts), sep)

\* usize / i64 Display
RECURSIVE NatToString(_)
NatToString(n) ==
    IF n < 10 THEN Digits[n + 1] ELSE NatToString(n \div 10) \o Digits[(n % 10) + 1]

IntToString(n) == IF n < 0 THEN "-" \o NatToString(-n) ELSE NatToString(n)

\* ---------------------------------------------------------- u64 arithmetic

\* A u64 is <<l0, l1, l2, l3>>, least significant 16-bit limb first.
Limb == 256 * 256

U64(n) == <<n % Limb, n \div Limb, 0, 0>>

\* The value l * 2^(16 * k)
U64Shifted(l, k) == [i \in 1..4 |-> IF i = k + 1 THEN l ELSE 0]

\* a * c for a small c (c <= 1024): the wrapped product and the overflow flag
\* (u64::wrapping_mul / the overflow check of a debug build).
U64MulSmall(a, c) ==
    LET p0 == a[1] * c
        p1 == a[2] * c + (p0 \div Limb)
        p2 == a[3] * c + (p1 \div Limb)
        p3 == a[4] * c + (p2 \div Limb)
    IN [v |-> <<p0 % Limb, p1 % Limb, p2 % Limb, p3 % Limb>>, ovf |-> p3 \div Limb # 0]

\* a * c1 * c2 * ... evaluated left to right, as Rust evaluates v * 1024 * 1024;
\* ovf when one of the products does not fit.
RECURSIVE U64MulChain(_, _)
RECURSIVE U64MulChainStep(_, _)
U64MulChainStep(m, cs) ==
    IF m.ovf THEN [v |-> U64MulChain(m.v, cs).v, ovf |-> TRUE] ELSE U64MulChain(m.v, cs)

U64MulChain(a, cs) ==
    IF Len(cs) = 0 THEN [v |-> a, ovf |-> FALSE]
    ELSE U64MulChainStep(U64MulSmall(a, cs[1]), Tail(cs))

U64Gt(a, b) ==
    \/ a[4] > b[4]
    \/ a[4] = b[4] /\ a[3] > b[3]
    \/ a[4] = b[4] /\ a[3] = b[3] /\ a[2] > b[2]
    \/ a[4] = b[4] /\ a[3] = b[3] /\ a[2] = b[2] /\ a[1] > b[1]

\* a / (1024 * 1024): a shift right by 20 bits
U64DivMi(a) ==
    <<(a[2] \div 16) + (a[3] % 16) * 4096,
      (a[3] \div 16) + (a[4] % 16) * 4096,
      a[4] \div 16,
      0>>

\* a divided by 10: quotient and remainder (long division, top limb first)
U64DivTen(a) ==
    LET q3 == a[4] \div 10
        r3 == a[4] % 10
        q2 == (r3 * Limb + a[3]) \div 10
        r2 == (r3 * Limb + a[3]) % 10
        q1 == (r2 * Limb + a[2]) \div 10
        r1 == (r2 * Limb + a[2]) % 10
        q0 == (r1 * Limb + a[1]) \div 10
        r0 == (r1 * Limb + a[1]) % 10
    IN [q |-> <<q0, q1, q2, q3>>, r |-> r0]

\* u64 Display
RECURSIVE U64ToString(_)
U64ToString(a) ==
    LET d == U64DivTen(a)
    IN IF d.q = <<0, 0, 0, 0>> THEN Digits[d.r + 1]
       ELSE U64ToString(d.q) \o Digits[d.r + 1]

\* a * c + d for small c and d: the wrapped value and the overflow flag
U64MulAdd(a, c, d) ==
    LET p0 == a[1] * c + d
        p1 == a[2] * c + (p0 \div Limb)
        p2 == a[3] * c + (p1 \div Limb)
        p3 == a[4] * c + (p2 \div Limb)
    IN [v |-> <<p0 % Limb, p1 % Limb, p2 % Limb, p3 % Limb>>, ovf |-> p3 \div Limb # 0]

\* str::parse::<u64>(): decimal digits only (after an optional '+'), Err on
\* overflow or when there is no digit.  ParseU64Step takes the next accumulator.
RECURSIVE ParseU64From(_, _)
RECURSIVE ParseU64Step(_, _, _)
ParseU64Step(s, acc, next) ==
    IF next.ovf THEN [ok |-> FALSE, v |-> acc] ELSE ParseU64From(Tail(s), next.v)

ParseU64From(s, acc) ==
    IF Len(s) = 0 THEN [ok |-> TRUE, v |-> acc]
    ELSE IF ~IsDigit(Head(s)) THEN [ok |-> FALSE, v |-> acc]
    ELSE ParseU64Step(s, acc, U64MulAdd(acc, 10, DigitVal(Head(s))))

ParseU64Digits(body) ==
    IF Len(body) = 0 THEN [ok |-> FALSE, v |-> U64(0)] ELSE ParseU64From(body, U64(0))

ParseU64(s) == ParseU64Digits(IF Len(s) > 1 /\ Head(s) = "+" THEN Tail(s) ELSE s)

\* 1-based position of the first / last occurrence of character c in s, 0 if none
\* (str::find / str::rfind).
RECURSIVE FindFrom(_, _, _)
FindFrom(s, c, i) ==
    IF i > Len(s) THEN 0
    ELSE IF SubSeq(s, i, i) = c THEN i
    ELSE FindFrom(s, c, i + 1)

Find(s, c) == FindFrom(s, c, 1)

RECURSIVE RFindFrom(_, _, _)
RFindFrom(s, c, i) ==
    IF i < 1 THEN 0
    ELSE IF SubSeq(s, i, i) = c THEN i
    ELSE RFindFrom(s, c, i - 1)

RFind(s, c) == RFindFrom(s, c, Len(s))

\* str::contains(&str)
Contains(s, sub) ==
    \E i \in 1..(Len(s) - Len(sub) + 1) : SubSeq(s, i, i + Len(sub) - 1) = sub

\* str::split(c).collect()
RECURSIVE Split(_, _)
Split(s, c) ==
    LET p == Find(s, c)
    IN IF p = 0 THEN <<s>>
       ELSE <<SubSeq(s, 1, p - 1)>> \o Split(SubSeq(s, p + 1, Len(s)), c)

\* ------------------------------------------------------------ configuration

\* Variant of PolicyName::ALL: the first two policies change places
PolicyNames_Swapped == <<"image_registry", "resource_limits", "labels", "topology_spread">>

\* PolicyName::ALL, the declared order
PolicyNames == <<"resource_limits", "image_registry", "labels", "topology_spread">>

\* PoliciesConfig::policy_enabled / policy_mode
PolicyEnabled(c, name) == c[name].enabled

PolicyMode(c, name) == c[name].mode

\* Option<u64>
NoneU64 == [some |-> FALSE]
SomeU64(v) == [some |-> TRUE, v |-> v]

\* The serde defaults of ResourceLimitsPolicy and TopologySpreadPolicy
DefaultCpuRequest == "100m"
DefaultCpuLimit == "500m"
DefaultMemoryRequest == "128Mi"
DefaultMemoryLimit == "512Mi"
DefaultMaxSkew == 1
DefaultTopologyKey == "topology.kubernetes.io/zone"
DefaultWhenUnsatisfiable == "DoNotSchedule"

\* ------------------------------------------------------------ object walker

WorkloadKinds ==
    {"Pod", "Deployment", "ReplicaSet", "StatefulSet", "DaemonSet", "Job", "CronJob"}

TemplateKinds == {"Deployment", "ReplicaSet", "StatefulSet", "DaemonSet", "Job"}

\* Variant of get_pod_spec: a kind outside the table is walked like a Pod
get_pod_spec_AnyKind(data, kind) ==
    IF kind \in TemplateKinds THEN Get(Get(Get(data, "spec"), "template"), "spec")
    ELSE IF kind = "CronJob"
    THEN Get(Get(Get(Get(Get(data, "spec"), "jobTemplate"), "spec"), "template"), "spec")
    ELSE Get(data, "spec")

get_pod_spec(data, kind) ==
    IF kind = "Pod" THEN Get(data, "spec")
    ELSE IF kind \in TemplateKinds THEN Get(Get(Get(data, "spec"), "template"), "spec")
    ELSE IF kind = "CronJob"
    THEN Get(Get(Get(Get(Get(data, "spec"), "jobTemplate"), "spec"), "template"), "spec")
    ELSE Absent

\* Variant of spec_prefix without the CronJob arm
spec_prefix_NoCronJob(kind) ==
    IF kind = "Pod" THEN "spec" ELSE "spec/template/spec"

spec_prefix(kind) ==
    IF kind = "Pod" THEN "spec"
    ELSE IF kind = "CronJob" THEN "spec/jobTemplate/spec/template/spec"
    ELSE "spec/template/spec"

\* The containers in declared order; the index of containers[i] is i - 1.
get_containers(pod_spec) ==
    LET c == Get(pod_spec, "containers")
    IN IF c.t = "arr" THEN c.a ELSE <<>>

container_name(container) ==
    LET n == Get(container, "name")
    IN IF n.t = "str" THEN n.s ELSE "<unnamed>"

resource_name(request, object) ==
    IF request.name = ""
    THEN (IF object.generate_name.t = "str" THEN object.generate_name.s ELSE "<unknown>")
    ELSE request.name

\* PolicyOutput; panicked marks an evaluation that unwound instead of returning.
PolicyOutput(violations, patches) ==
    [panicked |-> FALSE, violations |-> violations, patches |-> patches]

PolicyAllowed == PolicyOutput(<<>>, <<>>)

PolicyPanic == [panicked |-> TRUE, violations |-> <<>>, patches |-> <<>>]

\* PatchOperation::Add with PointerBuf::from_tokens(path_parts)
AddOperation(path_parts, value) == [op |-> "add", path |-> path_parts, value |-> value]

\* ---------------------------------------------------------- f64 arithmetic

\* a divided by a small c (c <= 32768): quotient and remainder
U64DivSmall(a, c) ==
    LET q3 == a[4] \div c
        r3 == a[4] % c
        q2 == (r3 * Limb + a[3]) \div c
        r2 == (r3 * Limb + a[3]) % c
        q1 == (r2 * Limb + a[2]) \div c
        r1 == (r2 * Limb + a[2]) % c
        q0 == (r1 * Limb + a[1]) \div c
        r0 == (r1 * Limb + a[1]) % c
    IN [q |-> <<q0, q1, q2, q3>>, r |-> r0]

\* a >> n
U64ShiftRight(a, n) ==
    IF n >= 64 THEN U64(0)
    ELSE U64DivSmall([i \in 1..4 |-> IF i + (n \div 16) <= 4 THEN a[i + (n \div 16)] ELSE 0],
                     2 ^ (n % 16)).q

\* 2^52: the smallest 53-bit significand
Two52 == U64Shifted(16, 3)

Two44 == U64Shifted(4096, 2)

\* A finite f64 that is not negative is [m, e], the value m * 2^(-e) with
\* 2^52 <= m <= 2^53 (or m = 0).  The quotient q of a division by c with
\* remainder r, rounded to nearest, ties to even:
RoundTiesEven(q, r, c) ==
    IF 2 * r > c \/ (2 * r = c /\ q[1] % 2 = 1) THEN U64MulAdd(q, 1, 1).v ELSE q

\* The f64 nearest to (n / c) * 2^(-e), for n / c < 2^52 and c <= 625: n is
\* scaled up (by 2^8 while the quotient is below 2^44, then doubled) until the
\* quotient has 53 bits; d is n divided by c.
RECURSIVE F64Normalize(_, _, _)
RECURSIVE F64NormalizeStep(_, _, _, _)
F64NormalizeStep(n, c, e, d) ==
    IF U64Gt(Two44, d.q) THEN F64Normalize(U64MulSmall(n, 256).v, c, e + 8)
    ELSE IF U64Gt(Two52, d.q) THEN F64Normalize(U64MulSmall(n, 2).v, c, e + 1)
    ELSE [m |-> RoundTiesEven(d.q, d.r, c), e |-> e]

F64Normalize(n, c, e) == F64NormalizeStep(n, c, e, U64DivSmall(n, c))

\* The f64 nearest to digits / 10^k (digits < 2^16, k <= 4): 10^k is 5^k * 2^k
F64FromDecimal(digits, k) ==
    IF digits = 0 THEN [m |-> U64(0), e |-> 0]
    ELSE F64Normalize(U64Shifted(digits, 2), 5 ^ k, 32 + k)

\* The significand of a product p = m * 1000 (2^61 < p < 2^63) rounded to 53
\* bits: s is the number of bits dropped
F64RoundProduct(p, e, s) ==
    [m |-> RoundTiesEven(U64DivSmall(p, 2 ^ s).q, U64DivSmall(p, 2 ^ s).r, 2 ^ s),
     e |-> e - s]

\* v * 1000.0
F64MulThousand(f) ==
    IF f.m = U64(0) THEN f
    ELSE F64RoundProduct(U64MulSmall(f.m, 1000).v, f.e,
                         IF U64MulSmall(f.m, 1000).v[4] >= 16384 THEN 10 ELSE 9)

\* v as u64 for 0 <= v < 2^31: the fraction is cut off
F64AsU64(f) ==
    LET t == U64ShiftRight(f.m, f.e)
    IN t[1] + t[2] * Limb

\* str::parse::<f64>() of a decimal literal: an optional sign, digits, optional
\* '.', digits (at least one digit; no exponent, "inf" or "nan" forms, which the
\* quantities fed to the model do not use; at most four digits after the point).
AllDigits(s) == \A i \in 1..Len(s) : IsDigit(SubSeq(s, i, i))

RECURSIVE DigitsToNat(_, _)
DigitsToNat(s, acc) ==
    IF Len(s) = 0 THEN acc ELSE DigitsToNat(Tail(s), acc * 10 + DigitVal(Head(s)))

ParseDecimal(ip, fp) ==
    IF AllDigits(ip) /\ AllDigits(fp) /\ Len(ip) + Len(fp) > 0 /\ Len(fp) <= 4
    THEN [ok |-> TRUE, v |-> F64FromDecimal(DigitsToNat(ip \o fp, 0), Len(fp))]
    ELSE [ok |-> FALSE, v |-> F64FromDecimal(0, 0)]

ParseF64At(s, p) ==
    IF p = 0 THEN ParseDecimal(s, "")
    ELSE ParseDecimal(SubSeq(s, 1, p - 1), SubSeq(s, p + 1, Len(s)))

ParseUnsigned(s, neg) ==
    [ok |-> ParseF64At(s, Find(s, ".")).ok, neg |-> neg, v |-> ParseF64At(s, Find(s, ".")).v]

ParseF64(s) ==
    IF Len(s) > 0 /\ Head(s) \in {"+", "-"} THEN ParseUnsigned(Tail(s), Head(s) = "-")
    ELSE ParseUnsigned(s, FALSE)

\* .map(|v| v as u64) for the millicore form, .map(|v| (v * 1000.0) as u64) else;
\* a negative value converts to 0.
CpuMillis(f, is_millis) ==
    [ok |-> f.ok,
     v |-> IF ~f.ok \/ f.neg THEN 0
           ELSE IF is_millis THEN F64AsU64(f.v)
           ELSE F64AsU64(F64MulThousand(f.v))]

\* ------------------------------------------------- policy: resource_limits

parse_cpu_millicores(value) ==
    CpuMillis(ParseF64(IF EndsWith(value, "m") THEN StripSuffix(value, "m") ELSE value),
              EndsWith(value, "m"))

\* The suffixes of parse_memory_bytes in the order they are tried, each with its
\* multipliers; the last entry is the no-suffix case.
MemorySuffixes ==
    << [suffix |-> "Gi", factors |-> <<1024, 1024, 1024>>],
       [suffix |-> "Mi", factors |-> <<1024, 1024>>],
       [suffix |-> "Ki", factors |-> <<1024>>],
       [suffix |-> "G", factors |-> <<1000, 1000, 1000>>],
       [suffix |-> "M", factors |-> <<1000, 1000>>],
       [suffix |-> "k", factors |-> <<1000>>],
       [suffix |-> "", factors |-> <<>>] >>

\* n.parse::<u64>().ok().map(|v| v * c1 * c2 ...): ovf marks a product that does
\* not fit 64 bits (v is then the wrapped product).
Scaled(parsed, m) ==
    IF parsed.ok THEN [ok |-> TRUE, v |-> m.v, ovf |-> m.ovf]
    ELSE [ok |-> FALSE, v |-> U64(0), ovf |-> FALSE]

ParseScaledWith(parsed, cs) == Scaled(parsed, U64MulChain(parsed.v, cs))

ParseScaled(n, cs) == ParseScaledWith(ParseU64(n), cs)

ParseMemoryWith(value, entry) == ParseScaled(StripSuffix(value, entry.suffix), entry.factors)

parse_memory_bytes(value) ==
    ParseMemoryWith(value,
        MemorySuffixes[CHOOSE k \in 1..Len(MemorySuffixes) :
            /\ EndsWith(value, MemorySuffixes[k].suffix)
            /\ \A j \in 1..(k - 1) : ~EndsWith(value, MemorySuffixes[j].suffix)])

Sections == <<"requests", "limits">>

\* Variant of MissingViolations: inject_defaults silences the violation on the
\* validating path too
MissingViolations_AnyPath(config, container, mutating) ==
    LET name == container_name(container)
        resources == Get(container, "resources")
        has_requests == NonEmptyObject(Get(resources, "requests"))
        has_limits == NonEmptyObject(Get(resources, "limits"))
        missing == IF ~has_requests /\ ~has_limits THEN "requests and limits"
                   ELSE IF ~has_requests THEN "requests"
                   ELSE "limits"
    IN IF (~has_requests \/ ~has_limits) /\ ~config.inject_defaults
       THEN <<"container '" \o name \o "' missing resource " \o missing>>
       ELSE <<>>

\* Variant of the guard of the match: has_requests and has_limits are not looked at
MissingMatchEntered_Unguarded(config, container, mutating) ==
    ~(mutating /\ config.inject_defaults)

\* if !has_requests || !has_limits { if !will_be_patched { match .. } }
\* (resource_limits.rs 45-49)
MissingMatchEntered(config, container, mutating) ==
    /\ \/ ~NonEmptyObject(Get(Get(container, "resources"), "requests"))
       \/ ~NonEmptyObject(Get(Get(container, "resources"), "limits"))
    /\ ~(mutating /\ config.inject_defaults)

\* The arm match (has_requests, has_limits) takes (resource_limits.rs 49-54)
MissingArm(has_requests, has_limits) ==
    IF ~has_requests /\ ~has_limits THEN "requests and limits"
    ELSE IF ~has_requests /\ has_limits THEN "requests"
    ELSE IF has_requests /\ ~has_limits THEN "limits"
    ELSE "unreachable!()"

\* The evaluation of the container panics in the match
ReachesUnreachable(config, container, mutating) ==
    /\ MissingMatchEntered(config, container, mutating)
    /\ MissingArm(NonEmptyObject(Get(Get(container, "resources"), "requests")),
                  NonEmptyObject(Get(Get(container, "resources"), "limits")))
         = "unreachable!()"

\* generate_resource_patches gets past the early return of !has_resources and
\* resources.unwrap() finds None (resource_limits.rs 119-147)
UnwrapFails(container) ==
    /\ NonEmptyObject(Get(container, "resources"))
    /\ ~IsSome(Get(container, "resources"))

\* Variant of the missing-resource check: the violation is kept back on the
\* validating path instead of the mutating one
MissingViolations_OnValidate(config, container, mutating) ==
    LET has_requests == NonEmptyObject(Get(Get(container, "resources"), "requests"))
        has_limits == NonEmptyObject(Get(Get(container, "resources"), "limits"))
        missing == IF ~has_requests /\ ~has_limits THEN "requests and limits"
                   ELSE IF ~has_requests THEN "requests"
                   ELSE "limits"
    IN IF (~has_requests \/ ~has_limits) /\ ~(~mutating /\ config.inject_defaults)
       THEN <<"container '" \o container_name(container) \o "' missing resource " \o missing>>
       ELSE <<>>

\* The 'missing resource' violation of one container (resource_limits.rs 36-59)
MissingViolations(config, container, mutating) ==
    LET name == container_name(container)
        resources == Get(container, "resources")
        has_requests == NonEmptyObject(Get(resources, "requests"))
        has_limits == NonEmptyObject(Get(resources, "limits"))
        will_be_patched == mutating /\ config.inject_defaults
        missing == IF ~has_requests /\ ~has_limits THEN "requests and limits"
                   ELSE IF ~has_requests THEN "requests"
                   ELSE "limits"
    IN IF (~has_requests \/ ~has_limits) /\ ~will_be_patched
       THEN <<"container '" \o name \o "' missing resource " \o missing>>
       ELSE <<>>

\* Variant of CpuExceeds: a quantity equal to the maximum is reported too
CpuExceeds_AtLeast(max_cpu, name, section, cpu, cpu_m) ==
    IF max_cpu.some /\ cpu.t = "str" /\ cpu_m.ok /\ cpu_m.v >= max_cpu.v
    THEN <<"container '" \o name \o "' " \o section \o " cpu '" \o cpu.s \o "' ("
             \o NatToString(cpu_m.v) \o "m) exceeds maximum allowed "
             \o NatToString(max_cpu.v) \o "m">>
    ELSE <<>>

\* The cpu check of one section of one container (resource_limits.rs 61-78):
\* cpu is the section's "cpu" member, cpu_m what parse_cpu_millicores made of it.
CpuExceeds(max_cpu, name, section, cpu, cpu_m) ==
    IF max_cpu.some /\ cpu.t = "str" /\ cpu_m.ok /\ cpu_m.v > max_cpu.v
    THEN <<"container '" \o name \o "' " \o section \o " cpu '" \o cpu.s \o "' ("
             \o NatToString(cpu_m.v) \o "m) exceeds maximum allowed "
             \o NatToString(max_cpu.v) \o "m">>
    ELSE <<>>

CpuCheck(config, name, section, cpu) ==
    CpuExceeds(config.max_cpu_millicores, name, section, cpu,
               IF cpu.t = "str" THEN parse_cpu_millicores(cpu.s) ELSE [ok |-> FALSE, v |-> 0])

CpuViolation(config, container, section) ==
    CpuCheck(config, container_name(container), section,
             Get(Get(Get(container, "resources"), section), "cpu"))

\* The memory check of one section of one container (resource_limits.rs 80-99).
\* overflow_checks is the build's overflow behaviour: an overflowing product
\* panics when it is on and wraps when it is off.  max_mem_bytes is
\* max_mem_mb * 1024 * 1024 and mem_bytes what parse_memory_bytes returned.
MemExceeds(max_mem_mb, max_mem_bytes, name, section, mem, mem_bytes, overflow_checks) ==
    IF ~max_mem_mb.some THEN PolicyAllowed
    ELSE IF max_mem_bytes.ovf /\ overflow_checks THEN PolicyPanic
    ELSE IF mem.t # "str" THEN PolicyAllowed
    ELSE IF mem_bytes.ok /\ mem_bytes.ovf /\ overflow_checks THEN PolicyPanic
    ELSE IF mem_bytes.ok /\ U64Gt(mem_bytes.v, max_mem_bytes.v)
    THEN PolicyOutput(<<"container '" \o name \o "' " \o section \o " memory '" \o mem.s
             \o "' (" \o U64ToString(U64DivMi(mem_bytes.v))
             \o " Mi) exceeds maximum allowed " \o U64ToString(max_mem_mb.v) \o " Mi">>,
           <<>>)
    ELSE PolicyAllowed

MemCheckOf(config, name, section, mem, overflow_checks) ==
    MemExceeds(config.max_memory_mb,
               U64MulChain(config.max_memory_mb.v, <<1024, 1024>>),
               name, section, mem,
               IF mem.t = "str" THEN parse_memory_bytes(mem.s)
               ELSE [ok |-> FALSE, v |-> U64(0), ovf |-> FALSE],
               overflow_checks)

MemCheck(config, container, section, overflow_checks) ==
    MemCheckOf(config, container_name(container), section,
               Get(Get(Get(container, "resources"), section), "memory"), overflow_checks)

\* serde_json::json!({"cpu": .., "memory": ..})
CpuMemory(cpu, memory) == Obj([cpu |-> Str(cpu), memory |-> Str(memory)])

\* Variant of generate_resource_patches: the whole resources member is added
\* whatever the container already has
generate_resource_patches_Always(config, container, prefix, idx) ==
    <<AddOperation(Split(prefix, "/") \o <<"containers", NatToString(idx), "resources">>,
        Obj([requests |-> CpuMemory(config.default_cpu_request,
                                    config.default_memory_request),
             limits |-> CpuMemory(config.default_cpu_limit,
                                  config.default_memory_limit)]))>>

\* Variant of generate_resource_patches: a requests or limits member that is an
\* empty object counts as absent and is added whole
generate_resource_patches_EmptyIsAbsent(config, container, prefix, idx) ==
    LET resources == Get(container, "resources")
        base == Split(prefix, "/") \o <<"containers", NatToString(idx), "resources">>
        SectionPatches(s, cpu, memory) ==
            IF ~NonEmptyObject(Get(resources, s))
            THEN <<AddOperation(base \o <<s>>, CpuMemory(cpu, memory))>>
            ELSE (IF ~IsSome(Get(Get(resources, s), "cpu"))
                  THEN <<AddOperation(base \o <<s, "cpu">>, Str(cpu))>> ELSE <<>>)
                 \o
                 (IF ~IsSome(Get(Get(resources, s), "memory"))
                  THEN <<AddOperation(base \o <<s, "memory">>, Str(memory))>> ELSE <<>>)
    IN IF ~NonEmptyObject(resources)
       THEN <<AddOperation(base,
                Obj([requests |-> CpuMemory(config.default_cpu_request,
                                            config.default_memory_request),
                     limits |-> CpuMemory(config.default_cpu_limit,
                                          config.default_memory_limit)]))>>
       ELSE SectionPatches("requests", config.default_cpu_request,
                           config.default_memory_request)
            \o SectionPatches("limits", config.default_cpu_limit,
                              config.default_memory_limit)

generate_resource_patches(config, container, prefix, idx) ==
    LET resources == Get(container, "resources")
        has_resources == NonEmptyObject(resources)
        base == Split(prefix, "/") \o <<"containers", NatToString(idx), "resources">>
        has_requests == IsSome(Get(resources, "requests"))
        requests == Get(resources, "requests")
        has_limits == IsSome(Get(resources, "limits"))
        limits == Get(resources, "limits")
        req_patches ==
            IF ~has_requests
            THEN <<AddOperation(base \o <<"requests">>,
                      CpuMemory(config.default_cpu_request, config.default_memory_request))>>
            ELSE (IF ~IsSome(Get(requests, "cpu"))
                  THEN <<AddOperation(base \o <<"requests", "cpu">>,
                                      Str(config.default_cpu_request))>>
                  ELSE <<>>)
                 \o
                 (IF ~IsSome(Get(requests, "memory"))
                  THEN <<AddOperation(base \o <<"requests", "memory">>,
                                      Str(config.default_memory_request))>>
                  ELSE <<>>)
        lim_patches ==
            IF ~has_limits
            THEN <<AddOperation(base \o <<"limits">>,
                      CpuMemory(config.default_cpu_limit, config.default_memory_limit))>>
            ELSE (IF ~IsSome(Get(limits, "cpu"))
                  THEN <<AddOperation(base \o <<"limits", "cpu">>,
                                      Str(config.default_cpu_limit))>>
                  ELSE <<>>)
                 \o
                 (IF ~IsSome(Get(limits, "memory"))
                  THEN <<AddOperation(base \o <<"limits", "memory">>,
                                      Str(config.default_memory_limit))>>
                  ELSE <<>>)
    IN IF ~has_resources
       THEN <<AddOperation(base,
                Obj([requests |-> CpuMemory(config.default_cpu_request,
                                            config.default_memory_request),
                     limits |-> CpuMemory(config.default_cpu_limit,
                                          config.default_memory_limit)]))>>
       ELSE req_patches \o lim_patches

\* One iteration of the container loop of resource_limits::evaluate: m1 and m2
\* are the memory checks of the two sections.
RlCollect(config, container, prefix, idx, mutating, m1, m2) ==
    IF \/ m1.panicked \/ m2.panicked
       \/ ReachesUnreachable(config, container, mutating)
       \/ (config.inject_defaults /\ UnwrapFails(container))
    THEN PolicyPanic
    ELSE PolicyOutput(
           MissingViolations(config, container, mutating)
             \o CpuViolation(config, container, "requests")
             \o CpuViolation(config, container, "limits")
             \o m1.violations \o m2.violations,
           IF config.inject_defaults
           THEN generate_resource_patches(config, container, prefix, idx)
           ELSE <<>>)

RlContainer(config, container, prefix, idx, mutating, overflow_checks) ==
    RlCollect(config, container, prefix, idx, mutating,
              MemCheck(config, container, "requests", overflow_checks),
              MemCheck(config, container, "limits", overflow_checks))

\* violations.extend / patches.extend over the containers
PolicyExtend(h, r) ==
    IF h.panicked \/ r.panicked THEN PolicyPanic
    ELSE PolicyOutput(h.violations \o r.violations, h.patches \o r.patches)

\* The container loop, from container number i (index i - 1) on
RECURSIVE RlLoop(_, _, _, _, _, _)
RlLoop(config, containers, prefix, i, mutating, overflow_checks) ==
    IF i > Len(containers) THEN PolicyAllowed
    ELSE PolicyExtend(
           RlContainer(config, containers[i], prefix, i - 1, mutating, overflow_checks),
           RlLoop(config, containers, prefix, i + 1, mutating, overflow_checks))

RlSpec(config, pod_spec, prefix, mutating, overflow_checks) ==
    IF ~IsSome(pod_spec) THEN PolicyAllowed
    ELSE RlLoop(config, get_containers(pod_spec), prefix, 1, mutating, overflow_checks)

resource_limits_evaluate(config, request, mutating, overflow_checks) ==
    IF ~IsSome(request.object) THEN PolicyAllowed
    ELSE RlSpec(config, get_pod_spec(request.object.data, request.kind),
                spec_prefix(request.kind), mutating, overflow_checks)

\* -------------------------------------------------- policy: image_registry

\* Variant of registry_matches: any registry that starts with the allowed entry
registry_matches_Prefix(registry, allowed) == StartsWith(registry, allowed)

registry_matches(registry, allowed) ==
    IF registry = allowed THEN TRUE
    ELSE IF StartsWith(registry, allowed)
    THEN Len(registry) > Len(allowed)
         /\ SubSeq(registry, Len(allowed) + 1, Len(allowed) + 1) = "/"
    ELSE FALSE

\* Variant of extract_registry: an explicit registry is the first segment alone
ExtractWith_FirstSegment(name_part, slash_pos, first) ==
    IF slash_pos = 0 THEN "docker.io/library"
    ELSE IF Find(first, ".") # 0 \/ Find(first, ":") # 0 \/ first = "localhost"
    THEN first
    ELSE "docker.io/" \o first

ExtractWith(name_part, slash_pos, first) ==
    IF slash_pos = 0 THEN "docker.io/library"
    ELSE IF Find(first, ".") # 0 \/ Find(first, ":") # 0 \/ first = "localhost"
    THEN SubSeq(name_part, 1, RFind(name_part, "/") - 1)
    ELSE "docker.io/" \o first

ExtractAt(name_part, slash_pos) ==
    ExtractWith(name_part, slash_pos, SubSeq(name_part, 1, slash_pos - 1))

extract_registry(name_part) == ExtractAt(name_part, Find(name_part, "/"))

\* ImageRef {registry, tag, has_digest} from the reference without its digest
\* and the position of the tag's colon (0: none)
ImageRefAt(image_no_digest, colon_pos, has_digest) ==
    [registry |-> extract_registry(IF colon_pos # 0
                                   THEN SubSeq(image_no_digest, 1, colon_pos - 1)
                                   ELSE image_no_digest),
     tag |-> IF colon_pos # 0
             THEN SubSeq(image_no_digest, colon_pos + 1, Len(image_no_digest))
             ELSE "",
     has_digest |-> has_digest]

ImageRefFrom(image_no_digest, last_slash, has_digest) ==
    ImageRefAt(image_no_digest,
               IF last_slash # 0 THEN FindFrom(image_no_digest, ":", last_slash)
               ELSE Find(image_no_digest, ":"),
               has_digest)

ImageRefOf(image_no_digest, has_digest) ==
    ImageRefFrom(image_no_digest, RFind(image_no_digest, "/"), has_digest)

ImageRefSplit(image, at) ==
    ImageRefOf(IF at # 0 THEN SubSeq(image, 1, at - 1) ELSE image, at # 0)

parse_image_ref(image) == ImageRefSplit(image, Find(image, "@"))

\* Variant of the container loop's body: only the literal tag "latest" is
\* reported, a reference without tag and digest is not
IrViolations_LatestOnly(config, name, image, ref) ==
    (IF ~(\E k \in 1..Len(config.registries) :
            registry_matches(ref.registry, config.registries[k]))
     THEN <<"container '" \o name \o "' image '" \o image \o "' uses registry '"
              \o ref.registry \o "' which is not in the allowed list ["
              \o Join(config.registries, ", ") \o "]">>
     ELSE <<>>)
    \o
    (IF ~config.allow_latest_tag /\ ref.tag = "latest"
     THEN <<"container '" \o name \o "' image '" \o image \o "' uses tag 'latest'">>
     ELSE <<>>)

\* One iteration of the container loop of image_registry::evaluate, given the
\* parsed reference of the container's image
IrViolations(config, name, image, ref) ==
    (IF ~(\E k \in 1..Len(config.registries) :
            registry_matches(ref.registry, config.registries[k]))
     THEN <<"container '" \o name \o "' image '" \o image \o "' uses registry '"
              \o ref.registry \o "' which is not in the allowed list ["
              \o Join(config.registries, ", ") \o "]">>
     ELSE <<>>)
    \o
    (IF ~config.allow_latest_tag
        /\ (ref.tag = "latest" \/ (ref.tag = "" /\ ~ref.has_digest))
     THEN <<"container '" \o name \o "' image '" \o image \o "' uses tag '"
              \o (IF ref.tag = "" THEN "<none> (defaults to latest)" ELSE "latest")
              \o "'">>
     ELSE <<>>)

IrImage(config, name, image) ==
    IF image.t # "str"
    THEN <<"container '" \o name \o "' has no image specified">>
    ELSE IrViolations(config, name, image.s, parse_image_ref(image.s))

IrContainer(config, container) ==
    IrImage(config, container_name(container), Get(container, "image"))

RECURSIVE IrLoop(_, _, _)
IrLoop(config, containers, i) ==
    IF i > Len(containers) THEN <<>>
    ELSE IrContainer(config, containers[i]) \o IrLoop(config, containers, i + 1)

IrSpec(config, pod_spec) ==
    IF ~IsSome(pod_spec) THEN PolicyAllowed
    ELSE PolicyOutput(IrLoop(config, get_containers(pod_spec), 1), <<>>)

image_registry_evaluate(config, request) ==
    IF ~IsSome(request.object) THEN PolicyAllowed
    ELSE IrSpec(config, get_pod_spec(request.object.data, request.kind))

\* ---------------------------------------------------------- policy: labels

\* The regular expressions of the model: "^(a|b|..)$" matches exactly the listed
\* words; any other pattern text matches the values that contain it (a pattern
\* without metacharacters, and the escaped literal an invalid pattern falls
\* back to).
IsAnchoredAlternation(p) == StartsWith(p, "^(") /\ EndsWith(p, ")$")

RegexIsMatch(p, value) ==
    IF IsAnchoredAlternation(p)
    THEN LET alts == Split(SubSeq(p, 3, Len(p) - 2), "|")
         IN \E k \in 1..Len(alts) : alts[k] = value
    ELSE Contains(value, p)

\* CompiledLabel {key, pattern}: the pattern is kept by its source text.
compile_labels(config) ==
    [k \in 1..Len(config.labels) |->
        [key |-> config.labels[k].key, pattern |-> config.labels[k].pattern]]

\* Variant of the loop body: the value of a present key is not checked
LabelViolation_IgnorePattern(cl, labels, kind, name) ==
    IF labels.t = "map" /\ cl.key \in DOMAIN labels.m THEN <<>>
    ELSE <<"missing required label '" \o cl.key \o "' on " \o kind \o " '" \o name \o "'">>

\* One iteration of the loop of labels::evaluate over the compiled labels
LabelViolation(cl, labels, kind, name) ==
    LET present == labels.t = "map" /\ cl.key \in DOMAIN labels.m
        value == labels.m[cl.key]
    IN IF ~present
       THEN <<"missing required label '" \o cl.key \o "' on " \o kind \o " '" \o name \o "'">>
       ELSE IF cl.pattern.t = "str" /\ ~RegexIsMatch(cl.pattern.s, value)
       THEN <<"label '" \o cl.key \o "' on " \o kind \o " '" \o name \o "' has value '"
                \o value \o "' which does not match required pattern '"
                \o cl.pattern.s \o "'">>
       ELSE <<>>

RECURSIVE LabelsLoop(_, _, _, _, _)
LabelsLoop(compiled_labels, labels, kind, name, i) ==
    IF i > Len(compiled_labels) THEN <<>>
    ELSE LabelViolation(compiled_labels[i], labels, kind, name)
         \o LabelsLoop(compiled_labels, labels, kind, name, i + 1)

\* Variant of labels::evaluate: an absent object is checked as one without labels
labels_evaluate_NoObject(compiled_labels, request) ==
    PolicyOutput(
      LabelsLoop(compiled_labels,
                 IF IsSome(request.object) THEN request.object.labels ELSE Absent,
                 request.kind, request.name, 1),
      <<>>)

labels_evaluate(compiled_labels, request) ==
    IF ~IsSome(request.object) THEN PolicyAllowed
    ELSE PolicyOutput(
           LabelsLoop(compiled_labels, request.object.labels, request.kind,
                      resource_name(request, request.object), 1),
           <<>>)

\* ------------------------------------------------- policy: topology_spread

get_pod_labels(object, kind) ==
    IF kind = "Pod"
    THEN (IF object.labels.t = "map" /\ DOMAIN object.labels.m # {}
          THEN Obj([k \in DOMAIN object.labels.m |-> Str(object.labels.m[k])])
          ELSE EmptyObj)
    ELSE LET l == Get(Get(Get(Get(object.data, "spec"), "template"), "metadata"), "labels")
         IN IF IsSome(l) THEN l ELSE EmptyObj

build_label_selector(object, kind) == Obj([matchLabels |-> get_pod_labels(object, kind)])

\* Variant of the loop body: a maxSkew equal to the maximum is reported as well
SkewViolation_AtLeast(config, constraint, i, kind, name) ==
    LET max_skew == Get(constraint, "maxSkew")
    IN IF max_skew.t = "num" /\ max_skew.n >= config.max_skew
       THEN <<"topologySpreadConstraints[" \o NatToString(i) \o "] on " \o kind \o " '"
                \o name \o "' has maxSkew=" \o IntToString(max_skew.n)>>
       ELSE <<>>

\* One iteration of the loop over the constraints (topology_spread.rs 39-56)
SkewViolation(config, constraint, i, kind, name) ==
    LET max_skew == Get(constraint, "maxSkew")
        tk == Get(constraint, "topologyKey")
        topology_key == IF tk.t = "str" THEN tk.s ELSE "<unset>"
    IN IF max_skew.t = "num" /\ max_skew.n > config.max_skew
       THEN <<"topologySpreadConstraints[" \o NatToString(i) \o "] on " \o kind \o " '"
                \o name \o "' has maxSkew=" \o IntToString(max_skew.n) \o " (topologyKey='"
                \o topology_key \o "') exceeding maximum " \o IntToString(config.max_skew)>>
       ELSE <<>>

RECURSIVE SkewLoop(_, _, _, _, _)
SkewLoop(config, constraints, i, kind, name) ==
    IF i > Len(constraints) THEN <<>>
    ELSE SkewViolation(config, constraints[i], i - 1, kind, name)
         \o SkewLoop(config, constraints, i + 1, kind, name)

topology_spread_evaluate(config, request, mutating) ==
    IF ~IsSome(request.object) THEN PolicyAllowed
    ELSE LET object == request.object
             kind == request.kind
             pod_spec == get_pod_spec(object.data, kind)
             name == resource_name(request, object)
             constraints == Get(pod_spec, "topologySpreadConstraints")
             will_be_patched == mutating /\ config.inject_if_missing
             constraint ==
                 Arr(<<Obj([maxSkew |-> Num(config.max_skew),
                            topologyKey |-> Str(config.topology_key),
                            whenUnsatisfiable |-> Str(config.when_unsatisfiable),
                            labelSelector |-> build_label_selector(object, kind)])>>)
         IN IF ~IsSome(pod_spec) THEN PolicyAllowed
            ELSE IF constraints.t = "arr" /\ Len(constraints.a) > 0
            THEN PolicyOutput(SkewLoop(config, constraints.a, 1, kind, name), <<>>)
            ELSE PolicyOutput(
                   IF ~will_be_patched
                   THEN <<kind \o " '" \o name \o "' has no topologySpreadConstraints">>
                   ELSE <<>>,
                   IF config.inject_if_missing
                   THEN <<AddOperation(
                            Split(spec_prefix(kind), "/") \o <<"topologySpreadConstraints">>,
                            constraint)>>
                   ELSE <<>>)

\* ------------------------------------------------------------------ engine

\* Option<String>
NoneStr == [some |-> FALSE]
SomeStr(s) == [some |-> TRUE, v |-> s]

\* The match on the policy name in evaluate_all (engine.rs 48-79)
EvaluatePolicy(c, name, request, include_patches, overflow_checks) ==
    IF name = "resource_limits"
    THEN resource_limits_evaluate(c[name], request, include_patches, overflow_checks)
    ELSE IF name = "image_registry" THEN image_registry_evaluate(c[name], request)
    ELSE IF name = "labels" THEN labels_evaluate(compile_labels(c[name]), request)
    ELSE topology_spread_evaluate(c[name], request, include_patches)

\* warnings of a warn-mode result: each violation prefixed with the policy name
PrefixAll(name, violations) ==
    [k \in 1..Len(violations) |-> name \o ": " \o violations[k]]

\* The match on the policy's mode in to_result (engine.rs 94-120)
ModeResult(c, name, violations, patches) ==
    IF PolicyMode(c, name) = "enforce"
    THEN [policy_name |-> name,
          allowed |-> violations = <<>>,
          message |-> IF violations = <<>> THEN NoneStr
                      ELSE SomeStr(Join(violations, "; ")),
          warnings |-> <<>>,
          patches |-> patches]
    ELSE [policy_name |-> name,
          allowed |-> TRUE,
          message |-> NoneStr,
          warnings |-> PrefixAll(name, violations),
          patches |-> patches]

\* Variant of to_result: the patches are kept on the validating path too
to_result_KeepPatches(c, name, output, include_patches) ==
    ModeResult(c, name, output.violations, output.patches)

\* Variant of to_result: a warn-mode policy with violations is not allowed
to_result_WarnDenies(c, name, output, include_patches) ==
    [ModeResult(c, name, output.violations,
                IF include_patches THEN output.patches ELSE <<>>)
       EXCEPT !.allowed = output.violations = <<>>]

\* PolicyEngine::to_result (the duration is not modelled)
to_result(c, name, output, include_patches) ==
    ModeResult(c, name, output.violations,
               IF include_patches THEN output.patches ELSE <<>>)

\* PolicyName::ALL.iter().filter(enabled).map(evaluate, to_result).collect(),
\* from policy number i on; panicked when an evaluation unwinds.
CollectResults(c, name, include_patches, output, rest) ==
    IF output.panicked \/ rest.panicked
    THEN [panicked |-> TRUE, results |-> <<>>]
    ELSE [panicked |-> FALSE,
          results |-> <<to_result(c, name, output, include_patches)>> \o rest.results]

RECURSIVE EvaluateFrom(_, _, _, _, _)
EvaluateFrom(c, request, include_patches, overflow_checks, i) ==
    IF i > Len(PolicyNames) THEN [panicked |-> FALSE, results |-> <<>>]
    ELSE IF ~PolicyEnabled(c, PolicyNames[i])
    THEN EvaluateFrom(c, request, include_patches, overflow_checks, i + 1)
    ELSE CollectResults(c, PolicyNames[i], include_patches,
           EvaluatePolicy(c, PolicyNames[i], request, include_patches, overflow_checks),
           EvaluateFrom(c, request, include_patches, overflow_checks, i + 1))

evaluate_all(c, request, include_patches, overflow_checks) ==
    EvaluateFrom(c, request, include_patches, overflow_checks, 1)

evaluate_validate(c, request, overflow_checks) ==
    evaluate_all(c, request, FALSE, overflow_checks)

evaluate_mutate(c, request, overflow_checks) ==
    evaluate_all(c, request, TRUE, overflow_checks)

\* ------------------------------------------------------ admission pipeline

\* Option<Vec<..>>
NoneSeq == [some |-> FALSE]
SomeSeq(s) == [some |-> TRUE, v |-> s]

\* AdmissionResponse::from(&req): an allow that echoes the uid
ResponseFrom(req) ==
    [uid |-> req.uid, allowed |-> TRUE, code |-> 0, message |-> "",
     patch |-> NoneSeq, warnings |-> NoneSeq]

\* AdmissionResponse::invalid(reason)
ResponseInvalid(reason) ==
    [uid |-> "", allowed |-> FALSE, code |-> 400, message |-> reason,
     patch |-> NoneSeq, warnings |-> NoneSeq]

\* AdmissionResponse::deny(reason)
Deny(resp, reason) == [resp EXCEPT !.allowed = FALSE, !.message = reason]

\* AdmissionResponse::with_patch(Patch(all_patches)); serialising add operations
\* over JSON values cannot fail, so the Err arm of build_response is not taken.
WithPatch(resp, all_patches) == [resp EXCEPT !.patch = SomeSeq(all_patches)]

\* The accumulation loop of build_response (handlers.rs 126-140)
RECURSIVE AllWarnings(_)
AllWarnings(results) ==
    IF Len(results) = 0 THEN <<>>
    ELSE results[1].warnings \o AllWarnings(Tail(results))

RECURSIVE AllPatches(_, _)
AllPatches(results, webhook_type) ==
    IF Len(results) = 0 THEN <<>>
    ELSE (IF webhook_type = "mutate" THEN results[1].patches ELSE <<>>)
         \o AllPatches(Tail(results), webhook_type)

\* Variant of the accumulation loop: only the first denial is kept
RECURSIVE DeniedMessages_FirstOnly(_)
DeniedMessages_FirstOnly(results) ==
    IF Len(results) = 0 THEN <<>>
    ELSE IF ~results[1].allowed
    THEN <<results[1].policy_name \o ": "
             \o (IF results[1].message.some THEN results[1].message.v ELSE "denied")>>
    ELSE DeniedMessages_FirstOnly(Tail(results))

RECURSIVE DeniedMessages(_)
DeniedMessages(results) ==
    IF Len(results) = 0 THEN <<>>
    ELSE (IF ~results[1].allowed
          THEN <<results[1].policy_name \o ": "
                   \o (IF results[1].message.some THEN results[1].message.v ELSE "denied")>>
          ELSE <<>>)
         \o DeniedMessages(Tail(results))

\* if !warnings.is_empty() { resp.warnings = Some(..) } (handlers.rs 158-161)
WithWarnings(resp, warnings) ==
    IF warnings # <<>>
    THEN [resp EXCEPT !.warnings =
             SomeSeq((IF resp.warnings.some THEN resp.warnings.v ELSE <<>>) \o warnings)]
    ELSE resp

\* Variant of build_response: a denial carries no warnings
build_response_DenyDropsWarnings(req, results, webhook_type) ==
    IF DeniedMessages(results) # <<>>
    THEN Deny(ResponseFrom(req), Join(DeniedMessages(results), "; "))
    ELSE WithWarnings(
           IF AllPatches(results, webhook_type) # <<>>
           THEN WithPatch(ResponseFrom(req), AllPatches(results, webhook_type))
           ELSE ResponseFrom(req),
           AllWarnings(results))

\* Variant of build_response: the patches are attached to a denial too
build_response_PatchOnDeny(req, results, webhook_type) ==
    WithWarnings(
        IF AllPatches(results, webhook_type) # <<>>
        THEN WithPatch(IF DeniedMessages(results) # <<>>
                       THEN Deny(ResponseFrom(req), Join(DeniedMessages(results), "; "))
                       ELSE ResponseFrom(req),
                       AllPatches(results, webhook_type))
        ELSE IF DeniedMessages(results) # <<>>
        THEN Deny(ResponseFrom(req), Join(DeniedMessages(results), "; "))
        ELSE ResponseFrom(req),
        AllWarnings(results))

build_response(req, results, webhook_type) ==
    WithWarnings(
        IF DeniedMessages(results) # <<>>
        THEN Deny(ResponseFrom(req), Join(DeniedMessages(results), "; "))
        ELSE IF AllPatches(results, webhook_type) # <<>>
        THEN WithPatch(ResponseFrom(req), AllPatches(results, webhook_type))
        ELSE ResponseFrom(req),
        AllWarnings(results))

FailOpenWarning == "sentinel: internal error during policy evaluation, failing open"

\* Variant of the Err arm: fail closed
FailClosedResponse(req) == Deny(ResponseFrom(req), FailOpenWarning)

\* The Err arm of the catch_unwind match (handlers.rs 90-102)
FailOpenResponse(req) ==
    [ResponseFrom(req) EXCEPT !.warnings = SomeSeq(<<FailOpenWarning>>)]

\* ----------------------------------------------------------------- metrics

\* Family::get_or_create(labels).inc() / .observe(): the count per label set
Inc(family, labels) ==
    IF labels \in DOMAIN family THEN [family EXCEPT ![labels] = @ + 1]
    ELSE family @@ (labels :> 1)

Count(family, labels) == IF labels \in DOMAIN family THEN family[labels] ELSE 0

RECURSIVE Total(_)
Total(family) ==
    IF DOMAIN family = {} THEN 0
    ELSE LET k == CHOOSE x \in DOMAIN family : TRUE
         IN family[k] + Total([x \in DOMAIN family \ {k} |-> family[x]])

BoolStr(b) == IF b THEN "true" ELSE "false"

record_request_metrics(m, req, webhook) ==
    [m EXCEPT !.admission_requests_total = Inc(@, <<req.operation, req.resource, webhook>>)]

\* Variant of record_response_metrics: every response is counted as allowed
record_response_metrics_AlwaysAllowed(m, allowed, webhook) ==
    [m EXCEPT !.admission_responses_total = Inc(@, <<"true", webhook>>)]

record_response_metrics(m, allowed, webhook) ==
    [m EXCEPT !.admission_responses_total = Inc(@, <<BoolStr(allowed), webhook>>)]

observe_request_duration(m, webhook) ==
    [m EXCEPT !.admission_request_duration_seconds = Inc(@, <<webhook>>)]

\* The labels of one result in record_policy_eval_metrics (handlers.rs 195-231)
PolicyEvalLabels(c, result) ==
    LET mode == IF result.allowed /\ result.warnings = <<>> THEN PolicyMode(c, result.policy_name)
                ELSE IF ~result.allowed THEN "enforce"
                ELSE "warn"
        eval_result == IF ~result.allowed THEN "denied"
                       ELSE IF result.warnings # <<>> THEN "warning"
                       ELSE "allowed"
    IN <<result.policy_name, eval_result, mode>>

RECURSIVE record_policy_eval_metrics(_, _, _)
record_policy_eval_metrics(m, c, results) ==
    IF Len(results) = 0 THEN m
    ELSE record_policy_eval_metrics(
           [m EXCEPT !.policy_evaluations_total = Inc(@, PolicyEvalLabels(c, results[1])),
                     !.policy_evaluation_duration_seconds = Inc(@, <<results[1].policy_name>>)],
           c, Tail(results))

NoMetrics ==
    [admission_requests_total |-> <<>>,
     admission_responses_total |-> <<>>,
     policy_evaluations_total |-> <<>>,
     admission_request_duration_seconds |-> <<>>,
     policy_evaluation_duration_seconds |-> <<>>]

\* ------------------------------------------------ JSON Patch (RFC 6902 add)

\* An array index token: decimal, no leading zero
IsIndex(tok) == Len(tok) > 0 /\ AllDigits(tok) /\ (Len(tok) = 1 \/ Head(tok) # "0")

InsertAt(a, i, value) == SubSeq(a, 1, i) \o <<value>> \o SubSeq(a, i + 1, Len(a))

\* The add operation the API server applies: the parent must exist and be an
\* object (member set or replaced) or an array (element inserted).
RECURSIVE AddAt(_, _, _)
AddAt(doc, path, value) ==
    LET tok == Head(path)
        fail == [ok |-> FALSE, doc |-> doc]
        idx == DigitsToNat(tok, 0)
    IN IF Len(path) = 0 THEN [ok |-> TRUE, doc |-> value]
       ELSE IF doc.t = "obj"
       THEN IF Len(path) = 1 THEN [ok |-> TRUE, doc |-> Obj((tok :> value) @@ doc.o)]
            ELSE IF tok \in DOMAIN doc.o
            THEN LET r == AddAt(doc.o[tok], Tail(path), value)
                 IN IF r.ok THEN [ok |-> TRUE, doc |-> Obj([doc.o EXCEPT ![tok] = r.doc])]
                    ELSE fail
            ELSE fail
       ELSE IF doc.t = "arr"
       THEN IF Len(path) = 1
            THEN (IF tok = "-" THEN [ok |-> TRUE, doc |-> Arr(Append(doc.a, value))]
                  ELSE IF IsIndex(tok) /\ idx <= Len(doc.a)
                  THEN [ok |-> TRUE, doc |-> Arr(InsertAt(doc.a, idx, value))]
                  ELSE fail)
            ELSE IF IsIndex(tok) /\ idx < Len(doc.a)
            THEN LET r == AddAt(doc.a[idx + 1], Tail(path), value)
                 IN IF r.ok THEN [ok |-> TRUE, doc |-> Arr([doc.a EXCEPT ![idx + 1] = r.doc])]
                    ELSE fail
            ELSE fail
       ELSE fail

\* The operations of a patch applied in order; the patch fails when one fails.
RECURSIVE ApplyPatch(_, _)
ApplyPatch(doc, ops) ==
    IF Len(ops) = 0 THEN [ok |-> TRUE, doc |-> doc]
    ELSE LET r == AddAt(doc, ops[1].path, ops[1].value)
         IN IF r.ok THEN ApplyPatch(r.doc, Tail(ops)) ELSE r

\* ------------------------------------------------------------------ inputs

\* An object from <<key, value>> pairs; a pair whose value is Absent is left out.
RECURSIVE Members(_)
Members(pairs) ==
    IF Len(pairs) = 0 THEN <<>>
    ELSE IF IsSome(pairs[1][2]) THEN (pairs[1][1] :> pairs[1][2]) @@ Members(Tail(pairs))
    ELSE Members(Tail(pairs))

MkObj(pairs) == Obj(Members(pairs))

Container(name, image, resources) ==
    MkObj(<<<<"name", Str(name)>>, <<"image", image>>, <<"resources", resources>>>>)

PodSpec(containers, constraints) ==
    MkObj(<<<<"containers", containers>>, <<"topologySpreadConstraints", constraints>>>>)

Template(pod_spec, labels) ==
    MkObj(<<<<"metadata", MkObj(<<<<"labels", labels>>>>)>>, <<"spec", pod_spec>>>>)

\* The object tree of a workload of the given kind around a pod spec; a kind
\* outside the table is laid out like a Pod.
Workload(kind, pod_spec, template_labels) ==
    IF kind \in TemplateKinds
    THEN Obj([spec |-> Obj([template |-> Template(pod_spec, template_labels)])])
    ELSE IF kind = "CronJob"
    THEN Obj([spec |-> Obj([jobTemplate |->
                 Obj([spec |-> Obj([template |-> Template(pod_spec, template_labels)])])])])
    ELSE Obj([spec |-> pod_spec])

LabelMap(m) == [t |-> "map", m |-> m]

DynamicObject(labels, data) ==
    [t |-> "dyn", labels |-> labels, generate_name |-> Absent, data |-> data]

AdmissionRequest(kind, operation, object) ==
    [uid |-> "uid-1", kind |-> kind, name |-> "web", operation |-> operation,
     resource |-> "workloads", object |-> object]

Webhooks == {"validate", "mutate"}

AllKinds == WorkloadKinds \cup {"Service"}

Resources(requests, limits) == MkObj(<<<<"requests", requests>>, <<"limits", limits>>>>)

Quantities(cpu, memory) == MkObj(<<<<"cpu", cpu>>, <<"memory", memory>>>>)

Constraint(max_skew) ==
    Obj([maxSkew |-> Num(max_skew), topologyKey |-> Str("kubernetes.io/hostname")])

TeamLabels(env) == LabelMap([team |-> "core", env |-> env])

PodLabels == Obj([app |-> Str("web")])

\* k containers without resources, image nginx:latest
RECURSIVE BareContainers(_)
BareContainers(k) ==
    IF k = 0 THEN <<>>
    ELSE BareContainers(k - 1) \o <<Container("c" \o NatToString(k - 1), Str("nginx:latest"), Absent)>>

\* The pod shapes of the pipeline specification, each with the metadata labels it
\* is submitted with.
PipelineShapes ==
    { [labels |-> TeamLabels("prod"),
       spec |-> PodSpec(Arr(<<Container("app", Str("gcr.io/proj/app:v1"),
                                 Resources(Quantities(Str("100m"), Str("128Mi")),
                                           Quantities(Str("500m"), Str("512Mi"))))>>),
                        Arr(<<Constraint(1)>>))],
      [labels |-> TeamLabels("staging"),
       spec |-> PodSpec(Arr(<<Container("app", Str("gcr.io/proj/app:v1"),
                                 Resources(Quantities(Str("2"), Str("1Gi")),
                                           Quantities(Str("1.5"), Str("64Mi"))))>>),
                        Arr(<<Constraint(1), Constraint(3)>>))],
      [labels |-> LabelMap([team |-> "core"]),
       spec |-> PodSpec(Arr(<<Container("a", Absent,
                                 Resources(Quantities(Str("100m"), Absent), Absent)),
                              Container("b", Str("docker.io.fake/x@sha256:ab"), EmptyObj)>>),
                        Arr(<<>>))],
      [labels |-> TeamLabels("prod"),
       spec |-> PodSpec(Arr(<<Container("x", Str("gcr.io/proj/app:v1"),
                                 Resources(Quantities(Str("1.001"), Str("128Mi")),
                                           Quantities(Str("1.5"), Str("128Mi")))),
                              Container("y", Str("gcr.io/proj/app:v1"),
                                 Resources(Quantities(Str("1000m"), Str("128Mi")),
                                           Quantities(Str("abc"), Str("128Mi"))))>>),
                        Arr(<<Constraint(1)>>))],
      [labels |-> TeamLabels("dev"),
       spec |-> PodSpec(Arr(<<Container("app", Str("gcr.io/proj/app:v1"),
                                 Resources(Quantities(Str("1"), Str("17179869184Gi")),
                                           Quantities(Str("0.5"), Str("512Mi"))))>>),
                        Arr(<<Constraint(1)>>))] }
    \cup { [labels |-> Absent, spec |-> PodSpec(Arr(BareContainers(k)), Absent)] :
             k \in 0..MaxContainers }

OkBody(request) == [class |-> "ok", request |-> request, err |-> ""]

BadBody(class, err) == [class |-> class, request |-> Absent, err |-> err]

\* What a POST body can be other than a well-formed AdmissionReview
BadBodies ==
    { BadBody("too_large", ""), BadBody("no_content_type", ""), BadBody("not_json", ""),
      BadBody("not_review", "missing field apiVersion"), BadBody("no_request", "") }

\* Every shape as a Pod, a Deployment, a CronJob and a Service; the other kinds
\* of the table with the bare shapes.
PipelineBodies ==
    { OkBody(AdmissionRequest(k, "CREATE",
                 DynamicObject(s.labels, Workload(k, s.spec, PodLabels)))) :
        k \in {"Pod", "Deployment", "CronJob", "Service"}, s \in PipelineShapes }
    \cup { OkBody(AdmissionRequest(k, "CREATE",
                 DynamicObject(Absent, Workload(k, PodSpec(Arr(BareContainers(1)), Absent),
                                                PodLabels)))) :
             k \in WorkloadKinds }
    \cup { OkBody(AdmissionRequest(k, "DELETE", Absent)) : k \in {"Pod", "Service"} }
    \cup BadBodies

ResourceLimits(enabled, mode, inject_defaults, max_cpu, max_mem) ==
    [enabled |-> enabled, mode |-> mode,
     max_cpu_millicores |-> max_cpu, max_memory_mb |-> max_mem,
     inject_defaults |-> inject_defaults,
     default_cpu_request |-> DefaultCpuRequest, default_cpu_limit |-> DefaultCpuLimit,
     default_memory_request |-> DefaultMemoryRequest,
     default_memory_limit |-> DefaultMemoryLimit]

AllowedRegistries(enabled, mode, allow_latest_tag) ==
    [enabled |-> enabled, mode |-> mode, registries |-> <<"gcr.io", "docker.io">>,
     allow_latest_tag |-> allow_latest_tag]

RequiredLabels(enabled, mode) ==
    [enabled |-> enabled, mode |-> mode,
     labels |-> <<[key |-> "team", pattern |-> Absent],
                  [key |-> "env", pattern |-> Str("^(prod|dev)$")]>>]

TopologySpread(enabled, mode, inject_if_missing) ==
    [enabled |-> enabled, mode |-> mode, max_skew |-> DefaultMaxSkew,
     topology_key |-> DefaultTopologyKey, when_unsatisfiable |-> DefaultWhenUnsatisfiable,
     inject_if_missing |-> inject_if_missing]

PoliciesConfig(rl, ir, lb, ts) ==
    [resource_limits |-> rl, image_registry |-> ir, labels |-> lb, topology_spread |-> ts]

\* max_memory_mb = 2^44: max_memory_mb * 1024 * 1024 does not fit 64 bits
HugeMemoryMb == U64Shifted(4096, 2)

RlChoices ==
    { ResourceLimits(FALSE, "enforce", FALSE, NoneU64, NoneU64),
      ResourceLimits(TRUE, "enforce", FALSE, SomeU64(1000), SomeU64(U64(256))),
      ResourceLimits(TRUE, "enforce", TRUE, SomeU64(1000), SomeU64(U64(256))),
      ResourceLimits(TRUE, "warn", TRUE, NoneU64, NoneU64),
      ResourceLimits(TRUE, "warn", FALSE, NoneU64, SomeU64(HugeMemoryMb)) }

IrChoices ==
    { AllowedRegistries(FALSE, "enforce", FALSE),
      AllowedRegistries(TRUE, "enforce", FALSE),
      AllowedRegistries(TRUE, "warn", FALSE) }

LbChoices ==
    { RequiredLabels(FALSE, "enforce"), RequiredLabels(TRUE, "enforce"),
      RequiredLabels(TRUE, "warn") }

TsChoices ==
    { TopologySpread(FALSE, "enforce", FALSE), TopologySpread(TRUE, "enforce", TRUE),
      TopologySpread(TRUE, "enforce", FALSE), TopologySpread(TRUE, "warn", TRUE) }

PipelineConfigs ==
    { PoliciesConfig(rl, ir, lb, ts) :
        rl \in RlChoices, ir \in IrChoices, lb \in LbChoices, ts \in TsChoices }

\* ------------------------------------------------------------ request tasks

NoReply == [kind |-> "none", status |-> 0]

\* axum's rejection of the Json<Value> extractor: a plain-text error response
Rejection(status) == [kind |-> "rejection", status |-> status]

\* review_to_json(resp.into_review()) returned as Json: always 200 OK
Review(resp) == [kind |-> "review", status |-> 200, response |-> resp]

NoResults == [panicked |-> FALSE, results |-> <<>>]

\* pc: idle (no connection) -> conn (accepted, TLS handshake) -> open (waiting
\* for a request) -> recv (request read) -> decode -> evaluate (inside
\* handle_webhook) -> write (response pending) -> done (response written).
\* cancelled: the task was dropped with the runtime.
IdleTask ==
    [pc |-> "idle", webhook |-> "none", body |-> BadBody("none", ""), req |-> Absent,
     results |-> NoResults, reply |-> NoReply, resubmits |-> 0, at_signal |-> "none"]

RecvTask(webhook, body) == [IdleTask EXCEPT !.pc = "recv", !.webhook = webhook, !.body = body]

\* The connection tasks of the model
TaskIds == {"t1", "t2"}

\* The pcs at which a task is suspended on I/O, and those inside the handler
AwaitPcs == {"conn", "open", "recv", "write"}

HandlerPcs == {"decode", "evaluate"}

\* Times the patched object of a response is submitted again
MaxResubmits == 1

\* The Json<serde_json::Value> extractor of handle_validate / handle_mutate behind
\* DefaultBodyLimit::max(2 MiB): the handler runs only for a JSON body.
Extract(t) ==
    /\ tasks[t].pc = "recv"
    /\ LET class == tasks[t].body.class
       IN tasks' = [tasks EXCEPT ![t] =
            IF class = "too_large" THEN [@ EXCEPT !.pc = "write", !.reply = Rejection(413)]
            ELSE IF class = "no_content_type"
            THEN [@ EXCEPT !.pc = "write", !.reply = Rejection(415)]
            ELSE IF class = "not_json" THEN [@ EXCEPT !.pc = "write", !.reply = Rejection(400)]
            ELSE [@ EXCEPT !.pc = "decode"]]
    /\ UNCHANGED <<cfg, metrics, server>>

\* handle_webhook up to record_request_metrics (handlers.rs 53-79)
HandleDecode(t) ==
    /\ tasks[t].pc = "decode"
    /\ LET body == tasks[t].body
       IN IF body.class = "not_review"
          THEN /\ tasks' = [tasks EXCEPT ![t].pc = "write",
                              ![t].reply = Review(ResponseInvalid(
                                  "failed to deserialize request: " \o body.err))]
               /\ UNCHANGED metrics
          ELSE IF body.class = "no_request"
          THEN /\ tasks' = [tasks EXCEPT ![t].pc = "write",
                              ![t].reply = Review(ResponseInvalid(
                                  "missing request field in AdmissionReview"))]
               /\ UNCHANGED metrics
          ELSE /\ tasks' = [tasks EXCEPT ![t].pc = "evaluate", ![t].req = body.request]
               /\ metrics' = record_request_metrics(metrics, body.request, tasks[t].webhook)
    /\ UNCHANGED <<cfg, server>>

\* match webhook_type { Validate => evaluate_validate, Mutate => evaluate_mutate }
\* inside catch_unwind (handlers.rs 81-88)
Evaluate(c, req, wh, overflow_checks) ==
    IF wh = "validate" THEN evaluate_validate(c, req, overflow_checks)
    ELSE evaluate_mutate(c, req, overflow_checks)

\* The two arms after catch_unwind: Err(_) answers fail-open (handlers.rs 90-102),
\* Ok(results) records the policy metrics and answers response (handlers.rs 104-109)
Respond(t, wh, req, ev, response) ==
    IF ev.panicked
    THEN /\ tasks' = [tasks EXCEPT ![t].pc = "write", ![t].results = ev,
                        ![t].reply = Review(FailOpenResponse(req))]
         /\ metrics' = observe_request_duration(
                           record_response_metrics(metrics, TRUE, wh), wh)
    ELSE /\ tasks' = [tasks EXCEPT ![t].pc = "write", ![t].results = ev,
                        ![t].reply = Review(response)]
         /\ metrics' = observe_request_duration(
                           record_response_metrics(
                               record_policy_eval_metrics(metrics, cfg, ev.results),
                               response.allowed, wh), wh)

RespondTo(t, wh, req, ev) == Respond(t, wh, req, ev, build_response(req, ev.results, wh))

\* handle_webhook from the catch_unwind on (handlers.rs 81-109)
HandleEvaluate(t) ==
    /\ tasks[t].pc = "evaluate"
    /\ RespondTo(t, tasks[t].webhook, tasks[t].req,
                 Evaluate(cfg, tasks[t].req, tasks[t].webhook, server.overflow_checks))
    /\ UNCHANGED <<cfg, server>>

\* The connection task writes the response (serve_connection, main.rs 102-108)
WriteResponse(t) ==
    /\ tasks[t].pc = "write"
    /\ ~server.exited
    /\ tasks' = [tasks EXCEPT ![t].pc = "done"]
    /\ UNCHANGED <<cfg, metrics, server>>

\* The API server applies the JSON Patch of a /mutate response to the object and
\* submits the patched object to webhook w.
Resubmit(t, w) ==
    /\ tasks[t].pc = "done"
    /\ ~server.exited
    /\ tasks[t].webhook = "mutate"
    /\ tasks[t].resubmits < MaxResubmits
    /\ tasks[t].reply.kind = "review"
    /\ tasks[t].reply.response.patch.some
    /\ LET req == tasks[t].req
           applied == ApplyPatch(req.object.data, tasks[t].reply.response.patch.v)
       IN /\ applied.ok
          /\ tasks' = [tasks EXCEPT ![t] =
                [RecvTask(w, OkBody([req EXCEPT !.object.data = applied.doc]))
                    EXCEPT !.resubmits = tasks[t].resubmits + 1]]
    /\ UNCHANGED <<cfg, metrics, server>>

\* ------------------------------------------------------------------ servers

\* After construction (main.rs 193-219): nothing bound, readiness false.
\* overflow_checks is the build's treatment of an integer overflow: panic (the
\* dev profile) or wrap (the release profile).
Starting(overflow_checks) ==
    [https |-> "init", http |-> "init", ready |-> FALSE, signal |-> FALSE,
     exited |-> FALSE, accepts |-> 0, readyz |-> 0, overflow_checks |-> overflow_checks]

\* Both listeners bound and accepting
Serving(overflow_checks) ==
    [Starting(overflow_checks) EXCEPT
        !.https = "listening", !.http = "listening", !.ready = TRUE]

\* The process ends: the runtime is dropped and with it every task that is
\* suspended; the tasks that have written their response are complete.
DropTasks(ts) ==
    [t \in DOMAIN ts |->
        IF ts[t].pc \in AwaitPcs THEN [ts[t] EXCEPT !.pc = "cancelled"] ELSE ts[t]]

\* run_https_server: TcpListener::bind, then ready.store(true) (main.rs 64-69);
\* a failed bind panics in main's task and the process ends.
BindHttps(ok) ==
    /\ server.https = "init"
    /\ ~server.exited
    /\ IF ok THEN /\ server' = [server EXCEPT !.https = "listening", !.ready = TRUE]
                  /\ UNCHANGED tasks
       ELSE /\ server' = [server EXCEPT !.https = "bind_failed", !.exited = TRUE]
            /\ tasks' = DropTasks(tasks)
    /\ UNCHANGED <<cfg, metrics>>

\* run_http_server: TcpListener::bind (main.rs 113-122)
BindHttp(ok) ==
    /\ server.http = "init"
    /\ ~server.exited
    /\ IF ok THEN /\ server' = [server EXCEPT !.http = "listening"]
                  /\ UNCHANGED tasks
       ELSE /\ server' = [server EXCEPT !.http = "bind_failed", !.exited = TRUE]
            /\ tasks' = DropTasks(tasks)
    /\ UNCHANGED <<cfg, metrics>>

\* Variant of readyz: answers 200 whatever the readiness bit is
Readyz_AlwaysOk ==
    /\ server.http = "listening"
    /\ ~server.exited
    /\ server' = [server EXCEPT !.readyz = 200]
    /\ UNCHANGED <<cfg, tasks, metrics>>

\* GET /readyz on the auxiliary server (health.rs 21-27)
Readyz ==
    /\ server.http = "listening"
    /\ ~server.exited
    /\ server' = [server EXCEPT !.readyz = IF server.ready THEN 200 ELSE 503]
    /\ UNCHANGED <<cfg, tasks, metrics>>

\* shutdown_signal: ctrl-c or SIGTERM arrives, shutdown_tx.send(()) (main.rs 34-55).
\* at_signal remembers where each task was at that moment.
ShutdownSignal ==
    /\ ~server.signal
    /\ ~server.exited
    /\ server' = [server EXCEPT !.signal = TRUE]
    /\ tasks' = [t \in TaskIds |-> [tasks[t] EXCEPT !.at_signal = tasks[t].pc]]
    /\ UNCHANGED <<cfg, metrics>>

\* The accept arm of the select! in run_https_server, then tokio::spawn
\* (main.rs 71-91).  select! polls its arms in random order, so the accept arm
\* can still win after the signal, until the loop takes the shutdown arm.
Accept(t) ==
    /\ server.https = "listening"
    /\ ~server.exited
    /\ server.accepts < MaxAccepts
    /\ tasks[t].pc = "idle"
    /\ tasks' = [tasks EXCEPT ![t] = [IdleTask EXCEPT !.pc = "conn"]]
    /\ server' = [server EXCEPT !.accepts = @ + 1]
    /\ UNCHANGED <<cfg, metrics>>

\* tls_acceptor.accept(tcp_stream).await in the spawned task (main.rs 92-98)
TlsHandshake(t, ok) ==
    /\ tasks[t].pc = "conn"
    /\ ~server.exited
    /\ tasks' = [tasks EXCEPT ![t].pc = IF ok THEN "open" ELSE "idle"]
    /\ UNCHANGED <<cfg, metrics, server>>

\* A POST to /validate or /mutate is read from the connection and routed
Dispatch(t, w, body) ==
    /\ tasks[t].pc = "open"
    /\ ~server.exited
    /\ tasks' = [tasks EXCEPT ![t] = [RecvTask(w, body) EXCEPT !.at_signal = tasks[t].at_signal]]
    /\ UNCHANGED <<cfg, metrics, server>>

\* The client closes the connection after the response; the task ends
Close(t) ==
    /\ tasks[t].pc = "done"
    /\ ~server.exited
    /\ tasks' = [tasks EXCEPT ![t] = IdleTask]
    /\ UNCHANGED <<cfg, metrics, server>>

\* The shutdown arm of the select! in run_https_server (main.rs 82-85): the loop
\* breaks, the function returns; the spawned tasks are not awaited.
HttpsShutdown ==
    /\ server.https = "listening"
    /\ server.signal
    /\ ~server.exited
    /\ server' = [server EXCEPT !.https = "stopped"]
    /\ UNCHANGED <<cfg, tasks, metrics>>

\* with_graceful_shutdown of the auxiliary server (main.rs 124-130)
HttpShutdown ==
    /\ server.http = "listening"
    /\ server.signal
    /\ ~server.exited
    /\ server' = [server EXCEPT !.http = "stopped"]
    /\ UNCHANGED <<cfg, tasks, metrics>>

\* tokio::join! completes, main returns (main.rs 221-227).  The runtime waits
\* for the tasks that are running (inside the handler) to yield and drops
\* every task.
MainExit ==
    /\ server.https = "stopped"
    /\ server.http = "stopped"
    /\ ~server.exited
    /\ \A t \in TaskIds : tasks[t].pc \notin HandlerPcs
    /\ server' = [server EXCEPT !.exited = TRUE]
    /\ tasks' = DropTasks(tasks)
    /\ UNCHANGED <<cfg, metrics>>

\* ---------------------------------------------------------- specifications

\* One request read from an open connection of the serving process, for every
\* configuration and body of the given sets.
InitWith(configs, bodies) ==
    /\ cfg \in configs
    /\ \E w \in Webhooks, b \in bodies :
         tasks = [t \in TaskIds |-> IF t = "t1" THEN RecvTask(w, b) ELSE IdleTask]
    /\ metrics = NoMetrics
    /\ server \in {Serving(overflow_checks) : overflow_checks \in BOOLEAN}

Init == InitWith(PipelineConfigs, PipelineBodies)

\* The path of one request through the pipeline
Next ==
    \E t \in TaskIds :
        \/ Extract(t)
        \/ HandleDecode(t)
        \/ HandleEvaluate(t)
        \/ WriteResponse(t)
        \/ \E w \in Webhooks : Resubmit(t, w)

Spec == Init /\ [][Next]_vars

\* ------------------------------------------- specification: patched objects

\* The shapes of a container's "resources" member
ResourceShapes ==
    { Absent, EmptyObj, Str("none"), Null,
      Resources(Absent, Quantities(Str("500m"), Str("512Mi"))),
      Resources(Quantities(Str("250m"), Absent), Absent),
      Resources(EmptyObj, Quantities(Absent, Str("1Gi"))),
      Resources(Quantities(Null, Str("64Mi")), Quantities(Str("1"), Absent)),
      Resources(Null, Absent),
      Resources(Quantities(Str("100m"), Str("128Mi")), Quantities(Str("500m"), Str("512Mi"))) }

\* The shapes of the pod spec's "topologySpreadConstraints" member
ConstraintShapes ==
    { Absent, Null, Arr(<<>>), Arr(<<Constraint(1)>>), Arr(<<Constraint(3), Constraint(1)>>) }

\* Pod specs of 1..MaxContainers containers: the last one has the shape, the
\* ones before it have no resources.
PatchPodSpecs ==
    { PodSpec(Arr(BareContainers(k - 1)
                    \o <<Container("app", Str("gcr.io/proj/app:v1"), r)>>), c) :
        k \in 1..MaxContainers, r \in ResourceShapes, c \in ConstraintShapes }
    \cup { PodSpec(Arr(<<>>), c) : c \in ConstraintShapes }

\* A Pod, a Deployment and a CronJob around every pod spec; the other kinds of
\* the table around the pod specs without constraints.
PatchBodies ==
    { OkBody(AdmissionRequest(k, "CREATE",
                 DynamicObject(TeamLabels("prod"), Workload(k, s, PodLabels)))) :
        k \in {"Pod", "Deployment", "CronJob"}, s \in PatchPodSpecs }
    \cup
    { OkBody(AdmissionRequest(k, "CREATE",
                 DynamicObject(TeamLabels("prod"), Workload(k, s, PodLabels)))) :
        k \in WorkloadKinds,
        s \in { s \in PatchPodSpecs : ~IsSome(Get(s, "topologySpreadConstraints")) } }

\* Every choice of the two patching policies, the other two switched off
PatchConfigs ==
    { PoliciesConfig(rl, AllowedRegistries(FALSE, "enforce", FALSE),
                     RequiredLabels(FALSE, "enforce"), ts) :
        rl \in RlChoices, ts \in TsChoices }

InitPatch == InitWith(PatchConfigs, PatchBodies)

SpecPatch == InitPatch /\ [][Next]_vars

\* ------------------------------------------------- specification: lifecycle

\* One configuration: labels enforced, the other policies off
ServerConfigs ==
    { PoliciesConfig(ResourceLimits(FALSE, "enforce", FALSE, NoneU64, NoneU64),
                     AllowedRegistries(FALSE, "enforce", FALSE),
                     RequiredLabels(TRUE, "enforce"),
                     TopologySpread(FALSE, "enforce", FALSE)) }

ServerBodies ==
    { OkBody(AdmissionRequest("Pod", "CREATE",
                 DynamicObject(TeamLabels("prod"),
                               Workload("Pod", PodSpec(Arr(BareContainers(1)), Absent),
                                        PodLabels)))),
      BadBody("not_json", "") }

\* The process after construction: nothing bound, no connection
InitServer ==
    /\ cfg \in ServerConfigs
    /\ tasks = [t \in TaskIds |-> IdleTask]
    /\ metrics = NoMetrics
    /\ server \in {Starting(overflow_checks) : overflow_checks \in BOOLEAN}

NextServer ==
    \/ \E ok \in BOOLEAN : BindHttps(ok)
    \/ \E ok \in BOOLEAN : BindHttp(ok)
    \/ Readyz
    \/ ShutdownSignal
    \/ HttpsShutdown
    \/ HttpShutdown
    \/ MainExit
    \/ \E t \in TaskIds :
        \/ Accept(t)
        \/ \E ok \in BOOLEAN : TlsHandshake(t, ok)
        \/ \E w \in Webhooks, body \in ServerBodies : Dispatch(t, w, body)
        \/ Extract(t)
        \/ HandleDecode(t)
        \/ HandleEvaluate(t)
        \/ WriteResponse(t)
        \/ Close(t)

SpecServer == InitServer /\ [][NextServer]_vars

\* ------------------------------------------------------------- properties

\* The handler of task t has run the policies on a decoded request
Evaluated(t) == tasks[t].pc \in {"write", "done"} /\ tasks[t].req # Absent

\* ... and the evaluation returned (no unwinding)
Answered(t) == Evaluated(t) /\ ~tasks[t].results.panicked

\* What policy name reports for the request of task t
OutputOf(t, name) ==
    EvaluatePolicy(cfg, name, tasks[t].req, tasks[t].webhook = "mutate",
                   server.overflow_checks)

UnknownKindCase(t) ==
    /\ Answered(t)
    /\ IsSome(tasks[t].req.object)
    /\ tasks[t].req.kind \notin WorkloadKinds

\* C1 as stated: for a request whose kind is outside the table, every enabled
\* policy's result is allowed and carries no patches.
C1_UnknownKindEveryPolicyAllowed ==
    \A t \in TaskIds :
        UnknownKindCase(t) =>
            \A k \in 1..Len(tasks[t].results.results) :
                /\ tasks[t].results.results[k].allowed
                /\ tasks[t].results.results[k].patches = <<>>

\* C1 as the code has it: for a request whose kind is outside the table, no
\* policy produces a patch; resource_limits, image_registry and topology_spread
\* report nothing (allowed, no message, no warnings); labels still checks the
\* object's metadata labels and reports exactly the violations of the required
\* labels.
C1_UnknownKindPodPoliciesNoOp ==
    \A t \in TaskIds :
        UnknownKindCase(t) =>
            \A k \in 1..Len(tasks[t].results.results) :
                LET r == tasks[t].results.results[k]
                    label_violations ==
                        LabelsLoop(compile_labels(cfg.labels), tasks[t].req.object.labels,
                                   tasks[t].req.kind, tasks[t].req.name, 1)
                IN /\ r.patches = <<>>
                   /\ r.policy_name # "labels" =>
                        r.allowed /\ ~r.message.some /\ r.warnings = <<>>
                   /\ r.policy_name = "labels" =>
                        /\ (r.allowed /\ r.warnings = <<>>) <=> label_violations = <<>>
                        /\ PolicyMode(cfg, "labels") = "enforce" =>
                             (r.allowed <=> label_violations = <<>>)

\* A Service without the required labels went through /mutate with all four
\* policies enabled and was denied by labels.
C1_Witness ==
    \E t \in TaskIds :
        /\ UnknownKindCase(t)
        /\ tasks[t].pc = "done"
        /\ tasks[t].webhook = "mutate"
        /\ Len(tasks[t].results.results) = Len(PolicyNames)
        /\ cfg.resource_limits.inject_defaults
        /\ cfg.topology_spread.inject_if_missing
        /\ ~tasks[t].reply.response.allowed

\* C2: when the request carries no object, the evaluation returns, every enabled
\* policy's result is allowed with no message, no warnings and no patches, and
\* the response is the plain allow of the request, on both webhooks.
C2_AbsentObjectPlainAllow ==
    \A t \in TaskIds :
        (Evaluated(t) /\ ~IsSome(tasks[t].req.object)) =>
            /\ ~tasks[t].results.panicked
            /\ \A k \in 1..Len(tasks[t].results.results) :
                 /\ tasks[t].results.results[k].allowed
                 /\ ~tasks[t].results.results[k].message.some
                 /\ tasks[t].results.results[k].warnings = <<>>
                 /\ tasks[t].results.results[k].patches = <<>>
            /\ tasks[t].reply.kind = "review"
            /\ tasks[t].reply.response =
                 [uid |-> tasks[t].req.uid, allowed |-> TRUE, code |-> 0, message |-> "",
                  patch |-> NoneSeq, warnings |-> NoneSeq]

\* A DELETE without object was answered on /mutate with every policy enabled.
C2_Witness ==
    \E t \in TaskIds :
        /\ Evaluated(t)
        /\ tasks[t].pc = "done"
        /\ ~IsSome(tasks[t].req.object)
        /\ tasks[t].webhook = "mutate"
        /\ Len(tasks[t].results.results) = Len(PolicyNames)

\* C3 as stated: a POST whose body is no AdmissionReview (not JSON, JSON of
\* another shape, a review without request) is answered 200 with an invalid
\* admission response.
C3_UndecodableBodyAnswered200 ==
    \A t \in TaskIds :
        (/\ tasks[t].pc \in {"write", "done"}
         /\ tasks[t].body.class \in {"not_json", "not_review", "no_request"}) =>
            /\ tasks[t].reply.kind = "review"
            /\ tasks[t].reply.status = 200
            /\ ~tasks[t].reply.response.allowed
            /\ tasks[t].reply.response.code = 400

\* The tasks that have a request in hand
InFlightPcs == {"recv", "decode", "evaluate", "write"}

\* C4 as stated: a request task that was in flight when the shutdown signal
\* arrived is not cancelled when the process exits.
C4_InFlightTasksComplete ==
    \A t \in TaskIds :
        (server.signal /\ server.exited /\ tasks[t].at_signal \in InFlightPcs) =>
            tasks[t].pc # "cancelled"

\* C5: the step of the handler in which the evaluation unwinds answers 200 with an
\* allow that echoes the uid, carries exactly the fail-open warning and no
\* patch, and counts one response with allowed="true" and no other response.
C5_PanicFailsOpen ==
    [][\A t \in TaskIds :
        (/\ tasks[t].pc = "evaluate"
         /\ tasks'[t].pc # "evaluate"
         /\ tasks'[t].results.panicked) =>
            /\ tasks'[t].pc = "write"
            /\ tasks'[t].reply.kind = "review"
            /\ tasks'[t].reply.status = 200
            /\ tasks'[t].reply.response.allowed
            /\ tasks'[t].reply.response.uid = tasks[t].req.uid
            /\ tasks'[t].reply.response.warnings =
                 SomeSeq(<<"sentinel: internal error during policy evaluation, failing open">>)
            /\ tasks'[t].reply.response.patch = NoneSeq
            /\ Count(metrics'.admission_responses_total, <<"true", tasks[t].webhook>>)
                 = Count(metrics.admission_responses_total, <<"true", tasks[t].webhook>>) + 1
            /\ Total(metrics'.admission_responses_total)
                 = Total(metrics.admission_responses_total) + 1]_vars

\* A request whose evaluation unwound has been answered.
C5_Witness ==
    \E t \in TaskIds :
        /\ Evaluated(t)
        /\ tasks[t].pc = "done"
        /\ tasks[t].results.panicked

\* C6: a response of /validate carries no patch and every result of the
\* validating path has no patches.
C6_ValidateNeverPatches ==
    \A t \in TaskIds :
        (Evaluated(t) /\ tasks[t].webhook = "validate") =>
            /\ tasks[t].reply.kind = "review"
            /\ tasks[t].reply.response.patch = NoneSeq
            /\ \A k \in 1..Len(tasks[t].results.results) :
                 tasks[t].results.results[k].patches = <<>>

\* /validate answered a request for which resource_limits (inject_defaults) and
\* topology_spread (inject_if_missing) both returned patches.
C6_Witness ==
    \E t \in TaskIds :
        /\ Answered(t)
        /\ tasks[t].pc = "done"
        /\ tasks[t].webhook = "validate"
        /\ PolicyEnabled(cfg, "resource_limits")
        /\ PolicyEnabled(cfg, "topology_spread")
        /\ OutputOf(t, "resource_limits").patches # <<>>
        /\ OutputOf(t, "topology_spread").patches # <<>>

\* The patches the enabled policies return on the mutating path, in policy order
RECURSIVE PolicyPatchesFrom(_, _)
PolicyPatchesFrom(t, i) ==
    IF i > Len(PolicyNames) THEN <<>>
    ELSE (IF PolicyEnabled(cfg, PolicyNames[i]) THEN OutputOf(t, PolicyNames[i]).patches
          ELSE <<>>)
         \o PolicyPatchesFrom(t, i + 1)

\* C7: on /mutate a response with a result that is not allowed is a denial without
\* patch; otherwise it is an allow whose patch is the concatenation, in policy
\* order, of the enabled policies' patches (no patch when there are none).
C7_MutatePatchOrDeny ==
    \A t \in TaskIds :
        (Answered(t) /\ tasks[t].webhook = "mutate") =>
            LET rs == tasks[t].results.results
                resp == tasks[t].reply.response
                expected == PolicyPatchesFrom(t, 1)
            IN /\ (\E k \in 1..Len(rs) : ~rs[k].allowed) =>
                    ~resp.allowed /\ resp.patch = NoneSeq
               /\ (\A k \in 1..Len(rs) : rs[k].allowed) =>
                    /\ resp.allowed
                    /\ resp.patch = IF expected = <<>> THEN NoneSeq ELSE SomeSeq(expected)
               /\ ~(~resp.allowed /\ resp.patch.some)

\* /mutate answered with a patch made of the patches of two policies.
C7_Witness ==
    \E t \in TaskIds :
        /\ Answered(t)
        /\ tasks[t].pc = "done"
        /\ tasks[t].webhook = "mutate"
        /\ tasks[t].reply.response.patch.some
        /\ OutputOf(t, "resource_limits").patches # <<>>
        /\ OutputOf(t, "topology_spread").patches # <<>>
        /\ Len(tasks[t].reply.response.patch.v)
             = Len(OutputOf(t, "resource_limits").patches)
               + Len(OutputOf(t, "topology_spread").patches)

\* "<policy_name>: <violations joined with "; ">" of the enabled enforce-mode
\* policies that report a violation, in policy order
RECURSIVE EnforcedDenialsFrom(_, _)
EnforcedDenialsFrom(t, i) ==
    IF i > Len(PolicyNames) THEN <<>>
    ELSE (IF /\ PolicyEnabled(cfg, PolicyNames[i])
             /\ PolicyMode(cfg, PolicyNames[i]) = "enforce"
             /\ OutputOf(t, PolicyNames[i]).violations # <<>>
          THEN <<PolicyNames[i] \o ": " \o Join(OutputOf(t, PolicyNames[i]).violations, "; ")>>
          ELSE <<>>)
         \o EnforcedDenialsFrom(t, i + 1)

\* C8: the response is a denial exactly when an enabled enforce-mode policy reports
\* a violation, and its message is the "; "-join of the entries of all those
\* policies in policy order.
C8_DenialMessageJoinsAll ==
    \A t \in TaskIds :
        Answered(t) =>
            LET denials == EnforcedDenialsFrom(t, 1)
                resp == tasks[t].reply.response
            IN /\ resp.allowed <=> denials = <<>>
               /\ denials # <<>> => resp.message = Join(denials, "; ")

\* A request denied by three enforce-mode policies at once.
C8_Witness ==
    \E t \in TaskIds :
        /\ Answered(t)
        /\ tasks[t].pc = "done"
        /\ ~tasks[t].reply.response.allowed
        /\ Len(EnforcedDenialsFrom(t, 1)) >= 3

\* C9: every result follows its policy's mode: enforce has no warnings, is
\* allowed iff the policy reported no violation and has a message iff it is not
\* allowed; warn is allowed, has no message and one warning
\* "<policy_name>: <violation>" per violation.  A request with no violation of
\* an enforce-mode policy is allowed.
C9_ModeTranslation ==
    \A t \in TaskIds :
        Answered(t) =>
            /\ \A k \in 1..Len(tasks[t].results.results) :
                 LET r == tasks[t].results.results[k]
                     v == OutputOf(t, r.policy_name).violations
                 IN IF PolicyMode(cfg, r.policy_name) = "enforce"
                    THEN /\ r.warnings = <<>>
                         /\ r.allowed <=> v = <<>>
                         /\ r.message.some <=> ~r.allowed
                    ELSE /\ r.allowed
                         /\ ~r.message.some
                         /\ Len(r.warnings) = Len(v)
                         /\ \A j \in 1..Len(v) :
                              r.warnings[j] = r.policy_name \o ": " \o v[j]
            /\ (\A name \in {PolicyNames[i] : i \in 1..Len(PolicyNames)} :
                  (PolicyEnabled(cfg, name) /\ PolicyMode(cfg, name) = "enforce") =>
                      OutputOf(t, name).violations = <<>>)
                 => tasks[t].reply.response.allowed

\* A request with violations of warn-mode policies only was allowed with warnings.
C9_Witness ==
    \E t \in TaskIds :
        /\ Answered(t)
        /\ tasks[t].pc = "done"
        /\ tasks[t].reply.response.allowed
        /\ \E k \in 1..Len(tasks[t].results.results) :
             /\ PolicyMode(cfg, tasks[t].results.results[k].policy_name) = "warn"
             /\ Len(tasks[t].results.results[k].warnings) >= 2
        /\ \E k \in 1..Len(tasks[t].results.results) :
             PolicyMode(cfg, tasks[t].results.results[k].policy_name) = "enforce"

\* C10: when an object patched by a /mutate response is submitted to /mutate
\* again under the same configuration, no policy returns a patch and the
\* response carries none.
C10_ResubmitNoPatches ==
    \A t \in TaskIds :
        (Evaluated(t) /\ tasks[t].resubmits > 0 /\ tasks[t].webhook = "mutate") =>
            /\ ~tasks[t].results.panicked
            /\ \A k \in 1..Len(tasks[t].results.results) :
                 tasks[t].results.results[k].patches = <<>>
            /\ tasks[t].reply.response.patch = NoneSeq
            /\ PolicyPatchesFrom(t, 1) = <<>>

\* A CronJob of MaxContainers containers, patched by a /mutate response under a
\* configuration in which both patching policies inject, was answered again.
C10_Witness ==
    \E t \in TaskIds :
        /\ Evaluated(t)
        /\ tasks[t].pc = "done"
        /\ tasks[t].resubmits > 0
        /\ tasks[t].webhook = "mutate"
        /\ tasks[t].req.kind = "CronJob"
        /\ cfg.resource_limits.enabled /\ cfg.resource_limits.inject_defaults
        /\ cfg.topology_spread.enabled /\ cfg.topology_spread.inject_if_missing
        /\ Len(get_containers(get_pod_spec(tasks[t].req.object.data, "CronJob")))
             = MaxContainers

\* C11: the readiness bit is true only when the HTTPS listener has bound (never
\* before the bind and never after a failed bind), and a GET /readyz answered
\* while the HTTPS listener has not bound is answered 503, never 200.
C11_ReadyOnlyAfterHttpsBind ==
    /\ server.ready => server.https \in {"listening", "stopped"}
    /\ server.https \in {"init", "bind_failed"} => ~server.ready
    /\ server.readyz = 200 => server.ready /\ server.https \in {"listening", "stopped"}
    /\ (server.readyz # 0 /\ server.https = "init") => server.readyz = 503

\* The auxiliary server has bound first and answered a GET /readyz with 503
\* while the HTTPS listener was not bound yet.
C11_Witness ==
    /\ server.http = "listening"
    /\ server.https = "init"
    /\ server.readyz = 503
    /\ ~server.exited

\* The members f of the results from number i on, concatenated in results order
RECURSIVE ConcatOfResults(_, _, _)
ConcatOfResults(rs, f, i) ==
    IF i > Len(rs) THEN <<>> ELSE rs[i][f] \o ConcatOfResults(rs, f, i + 1)

\* "<policy_name>: <message>" of the results that are not allowed, from number
\* i on, in results order
RECURSIVE DenialsOfResults(_, _)
DenialsOfResults(rs, i) ==
    IF i > Len(rs) THEN <<>>
    ELSE (IF rs[i].allowed THEN <<>>
          ELSE <<rs[i].policy_name \o ": " \o rs[i].message.v>>)
         \o DenialsOfResults(rs, i + 1)

\* C12: the results name exactly the enabled policies, once each, in the order
\* resource_limits, image_registry, labels, topology_spread; the warnings of
\* the response, the entries of its denial message and (on /mutate, when not
\* denied) its patch are those of the results taken in that order.
C12_ResultsInDeclaredOrder ==
    \A t \in TaskIds :
        Answered(t) =>
            LET rs == tasks[t].results.results
                resp == tasks[t].reply.response
                IsEnabled(name) == cfg[name].enabled
                warnings == ConcatOfResults(rs, "warnings", 1)
                patches == ConcatOfResults(rs, "patches", 1)
                denials == DenialsOfResults(rs, 1)
            IN /\ [k \in 1..Len(rs) |-> rs[k].policy_name]
                    = SelectSeq(<<"resource_limits", "image_registry", "labels",
                                  "topology_spread">>, IsEnabled)
               /\ resp.warnings = IF warnings = <<>> THEN NoneSeq ELSE SomeSeq(warnings)
               /\ denials # <<>> => resp.message = Join(denials, "; ")
               /\ (denials = <<>> /\ tasks[t].webhook = "mutate") =>
                    resp.patch = IF patches = <<>> THEN NoneSeq ELSE SomeSeq(patches)

\* A request answered with image_registry disabled: three results, warnings of
\* resource_limits and of labels in one response.
C12_Witness ==
    \E t \in TaskIds :
        /\ Answered(t)
        /\ tasks[t].pc = "done"
        /\ ~cfg.image_registry.enabled
        /\ Len(tasks[t].results.results) = 3
        /\ tasks[t].results.results[1].warnings # <<>>
        /\ tasks[t].results.results[2].warnings # <<>>
        /\ tasks[t].reply.response.warnings.some

\* The pod-spec location of a workload kind, as path tokens
PodSpecLocation(kind) ==
    IF kind = "Pod" THEN <<"spec">>
    ELSE IF kind = "CronJob" THEN <<"spec", "jobTemplate", "spec", "template", "spec">>
    ELSE <<"spec", "template", "spec">>

\* The value found by following the member names toks from v
RECURSIVE ValueAt(_, _)
ValueAt(v, toks) ==
    IF toks = <<>> THEN v ELSE ValueAt(Get(v, Head(toks)), Tail(toks))

\* What may follow containers/<i> in the path of a resource patch
ResourceTails ==
    { <<"resources">> \o s :
        s \in { <<>>, <<"requests">>, <<"limits">>, <<"requests", "cpu">>,
                <<"requests", "memory">>, <<"limits", "cpu">>, <<"limits", "memory">> } }

\* The container has every resource member the defaults fill
HasAllResources(container) ==
    \A s \in {"requests", "limits"}, q \in {"cpu", "memory"} :
        IsSome(Get(Get(Get(container, "resources"), s), q))

\* p is an add at loc/containers/<i>/resources[...] for the index i of one of the
\* containers, and that container lacks a resource member
IsResourcePatchAt(p, loc, containers) ==
    /\ p.op = "add"
    /\ \E i \in 0..(Len(containers) - 1) :
           /\ \E tail \in ResourceTails :
                  p.path = loc \o <<"containers", ToString(i)>> \o tail
           /\ ~HasAllResources(containers[i + 1])

\* p is an add at loc/topologySpreadConstraints
IsConstraintPatchAt(p, loc) ==
    /\ p.op = "add"
    /\ p.path = loc \o <<"topologySpreadConstraints">>

\* The patch operations of the response of task t
EmittedPatch(t) ==
    IF tasks[t].reply.response.patch.some THEN tasks[t].reply.response.patch.v ELSE <<>>

\* The patch operations rl of resource_limits, ts of topology_spread and emitted
\* of the response lie at the pod-spec location loc, whose containers are given
PatchesLieAt(loc, containers, rl, ts, emitted) ==
    /\ \A j \in 1..Len(rl) : IsResourcePatchAt(rl[j], loc, containers)
    /\ \A j \in 1..Len(ts) : IsConstraintPatchAt(ts[j], loc)
    /\ \A j \in 1..Len(emitted) :
           \/ IsResourcePatchAt(emitted[j], loc, containers)
           \/ IsConstraintPatchAt(emitted[j], loc)

PatchesLieAtSpec(t, loc, pod_spec) ==
    /\ get_pod_spec(tasks[t].req.object.data, tasks[t].req.kind) = pod_spec
    /\ PatchesLieAt(loc, get_containers(pod_spec),
                    OutputOf(t, "resource_limits").patches,
                    OutputOf(t, "topology_spread").patches,
                    EmittedPatch(t))

\* C13: for a request of workload kind K, the pod spec the policies evaluated is
\* the value at the pod-spec location of K (spec; spec/template/spec;
\* spec/jobTemplate/spec/template/spec), every patch operation of resource_limits
\* is an add at that location followed by containers/<i>/resources[...] with i
\* the zero-based index of a container that lacks a resource member, every patch
\* operation of topology_spread is an add at that location followed by
\* topologySpreadConstraints, and the response's patch holds only such operations.
C13_PatchPathsAtPodSpecLocation ==
    \A t \in TaskIds :
        (Answered(t) /\ IsSome(tasks[t].req.object)
            /\ tasks[t].req.kind \in WorkloadKinds) =>
            PatchesLieAtSpec(t, PodSpecLocation(tasks[t].req.kind),
                             ValueAt(tasks[t].req.object.data,
                                     PodSpecLocation(tasks[t].req.kind)))

\* A CronJob answered on /mutate with a patch that adds the resources of the
\* second container and the topology spread constraints.
C13_Witness ==
    \E t \in TaskIds :
        /\ Answered(t)
        /\ tasks[t].webhook = "mutate"
        /\ tasks[t].req.kind = "CronJob"
        /\ \E j, k \in 1..Len(EmittedPatch(t)) :
               /\ EmittedPatch(t)[j].path
                    = <<"spec", "jobTemplate", "spec", "template", "spec",
                        "containers", "1", "resources", "requests">>
               /\ EmittedPatch(t)[k].path
                    = <<"spec", "jobTemplate", "spec", "template", "spec",
                        "topologySpreadConstraints">>

\* The configured default of member q ("cpu" or "memory") of section s
DefaultQuantity(config, s, q) ==
    IF s = "requests"
    THEN (IF q = "cpu" THEN config.default_cpu_request ELSE config.default_memory_request)
    ELSE (IF q = "cpu" THEN config.default_cpu_limit ELSE config.default_memory_limit)

DefaultSection(config, s) ==
    Obj([cpu |-> Str(DefaultQuantity(config, s, "cpu")),
         memory |-> Str(DefaultQuantity(config, s, "memory"))])

\* The minimal adds of one container whose resources member sits at path base:
\* the whole resources object when whole holds; otherwise, for each section, the
\* whole section when it is absent, or its absent cpu / memory members.
MinimalResourcePatches(config, container, base, whole) ==
    IF whole
    THEN { [op |-> "add", path |-> base,
            value |-> Obj([requests |-> DefaultSection(config, "requests"),
                           limits |-> DefaultSection(config, "limits")])] }
    ELSE UNION
           { IF Get(Get(container, "resources"), s) = Absent
             THEN { [op |-> "add", path |-> base \o <<s>>,
                     value |-> DefaultSection(config, s)] }
             ELSE { [op |-> "add", path |-> base \o <<s, q>>,
                     value |-> Str(DefaultQuantity(config, s, q))] :
                      q \in { q \in {"cpu", "memory"} :
                                Get(Get(Get(container, "resources"), s), q) = Absent } } :
             s \in {"requests", "limits"} }

\* The operations of ps that lie below containers/<i> of the pod spec at loc
PatchesOfContainer(ps, loc, i) ==
    LET Below(p) == /\ Len(p.path) >= Len(loc) + 2
                    /\ p.path[Len(loc) + 2] = ToString(i)
    IN SelectSeq(ps, Below)

\* The request of task t was evaluated by resource_limits with inject_defaults
InjectDefaultsCase(t) ==
    /\ Answered(t)
    /\ IsSome(tasks[t].req.object)
    /\ tasks[t].req.kind \in WorkloadKinds
    /\ cfg.resource_limits.inject_defaults

\* The operations ps of one container are, each once, those of the set
\* expected, and every one of them satisfies Target(container, tail), tail
\* being its path from the container on
ContainerPatchesAre(ps, skip, container, expected, Target(_, _)) ==
    /\ { ps[j] : j \in 1..Len(ps) } = expected
    /\ Len(ps) = Cardinality(expected)
    /\ \A j \in 1..Len(ps) :
           Target(container, SubSeq(ps[j].path, skip + 1, Len(ps[j].path)))

\* The output out of resource_limits for containers at the pod-spec location
\* loc: unless the evaluation unwound, the patches of every container are the
\* minimal ones, the resources member being added whole when Whole(resources)
\* holds, and their targets satisfy Target
ResourcePatchesAre(out, loc, containers, Whole(_), Target(_, _)) ==
    ~out.panicked =>
        \A k \in 1..Len(containers) :
            ContainerPatchesAre(
                PatchesOfContainer(out.patches, loc, k - 1), Len(loc) + 2, containers[k],
                MinimalResourcePatches(cfg.resource_limits, containers[k],
                    loc \o <<"containers", ToString(k - 1), "resources">>,
                    Whole(Get(containers[k], "resources"))),
                Target)

\* C14 as stated: with inject_defaults, a container gets one add of the whole
\* resources object when its resources member is absent or an empty object, and
\* otherwise per section the whole section when absent or its missing cpu /
\* memory members; no add targets a path that holds a value (other than that
\* empty resources object) in the submitted object.
C14_AddsNeverOverwrite ==
    \A t \in TaskIds :
        InjectDefaultsCase(t) =>
            LET AbsentOrEmpty(resources) == resources \in {Absent, EmptyObj}
                Free(container, tail) == ValueAt(container, tail) \in {Absent, EmptyObj}
            IN ResourcePatchesAre(
                   OutputOf(t, "resource_limits"), PodSpecLocation(tasks[t].req.kind),
                   get_containers(ValueAt(tasks[t].req.object.data,
                                          PodSpecLocation(tasks[t].req.kind))),
                   AbsentOrEmpty, Free)

\* C14 as the code has it: with inject_defaults, a container gets one add of the
\* whole resources object when its resources member is anything but a non-empty
\* object (absent, empty, null or of another type: the add then replaces it), and
\* otherwise per section the whole section when absent or its missing cpu /
\* memory members; inside a non-empty resources object no add targets a path
\* that holds a value.
C14_AddsMinimalInsideResources ==
    \A t \in TaskIds :
        InjectDefaultsCase(t) =>
            LET NoMembers(resources) == ~NonEmptyObject(resources)
                Free(container, tail) ==
                    \/ ValueAt(container, tail) = Absent
                    \/ /\ tail = <<"resources">>
                       /\ ~NonEmptyObject(Get(container, "resources"))
            IN ResourcePatchesAre(
                   OutputOf(t, "resource_limits"), PodSpecLocation(tasks[t].req.kind),
                   get_containers(ValueAt(tasks[t].req.object.data,
                                          PodSpecLocation(tasks[t].req.kind))),
                   NoMembers, Free)

\* A Deployment whose second container has empty requests and limits with only
\* memory: the policy adds requests/cpu, requests/memory and limits/cpu for it
\* and the whole resources object for the first container.
C14_Witness ==
    \E t \in TaskIds :
        /\ InjectDefaultsCase(t)
        /\ ~OutputOf(t, "resource_limits").panicked
        /\ tasks[t].req.kind = "Deployment"
        /\ LET ps == OutputOf(t, "resource_limits").patches
               base == <<"spec", "template", "spec", "containers">>
           IN /\ Len(ps) = 4
              /\ ps[1].path = base \o <<"0", "resources">>
              /\ ps[2].path = base \o <<"1", "resources", "requests", "cpu">>
              /\ ps[3].path = base \o <<"1", "resources", "requests", "memory">>
              /\ ps[4].path = base \o <<"1", "resources", "limits", "cpu">>

\* The violations of one container's section that report its memory quantity
MemoryViolationsOf(violations, name, section) ==
    LET AboutMemory(v) ==
            StartsWith(v, "container '" \o name \o "' " \o section \o " memory '")
    IN SelectSeq(violations, AboutMemory)

\* The byte value behind mem_bytes is greater than the one behind max_mem_bytes,
\* as numbers: a product that does not fit 64 bits is greater than any that does.
ExceedsAsNumbers(mem_bytes, max_mem_bytes) ==
    /\ mem_bytes.ok
    /\ ~max_mem_bytes.ovf
    /\ (mem_bytes.ovf \/ U64Gt(mem_bytes.v, max_mem_bytes.v))

\* The memory violations of section s of container are one if its quantity is
\* above the maximum and none otherwise (nothing is said when both products
\* exceed 64 bits)
MemoryViolationIsExact(violations, max_mem_mb, container, s) ==
    LET mem == Get(Get(Get(container, "resources"), s), "memory")
        mem_bytes == parse_memory_bytes(mem.s)
        max_mem_bytes == U64MulChain(max_mem_mb, <<1024, 1024>>)
    IN (mem.t = "str" /\ ~(mem_bytes.ok /\ mem_bytes.ovf /\ max_mem_bytes.ovf)) =>
           Len(MemoryViolationsOf(violations, container_name(container), s))
               = IF ExceedsAsNumbers(mem_bytes, max_mem_bytes) THEN 1 ELSE 0

\* C15: when max_memory_mb is set, resource_limits reports one memory violation
\* for a container's requests or limits memory quantity if its byte value
\* (mantissa times the suffix's multiplier, as numbers) is greater than
\* max_memory_mb * 1024 * 1024, and none otherwise; no quantity above the
\* maximum goes unreported because a 64-bit product wrapped around.
C15_MemoryViolationIffAboveMaximum ==
    \A t \in TaskIds :
        (Evaluated(t) /\ IsSome(tasks[t].req.object)
            /\ tasks[t].req.kind \in WorkloadKinds
            /\ cfg.resource_limits.enabled
            /\ cfg.resource_limits.max_memory_mb.some) =>
            LET containers ==
                    get_containers(get_pod_spec(tasks[t].req.object.data, tasks[t].req.kind))
            IN \A k \in 1..Len(containers), s \in {"requests", "limits"} :
                   MemoryViolationIsExact(OutputOf(t, "resource_limits").violations,
                                          cfg.resource_limits.max_memory_mb.v,
                                          containers[k], s)

\* The millicores of the cpu quantities of the specification's pods, as the f64
\* conversion yields them: a value ending in 'm' is the number before the
\* suffix, anything else is cores times 1000.0 with the fraction cut off (the
\* f64 nearest to 1.001 times 1000.0 is just below 1001).
CpuMillicoresOf ==
    [q \in {"1", "1000m", "0.5", "1.5", "2", "100m", "500m", "1.001"} |->
        CASE q = "1" -> 1000
          [] q = "1000m" -> 1000
          [] q = "0.5" -> 500
          [] q = "1.5" -> 1500
          [] q = "2" -> 2000
          [] q = "100m" -> 100
          [] q = "500m" -> 500
          [] q = "1.001" -> 1000]

\* The cpu quantities that are not numbers
CpuUnparseable == {"abc"}

\* The violations of one container's section that report its cpu quantity
CpuViolationsOf(violations, name, section) ==
    LET AboutCpu(v) == StartsWith(v, "container '" \o name \o "' " \o section \o " cpu '")
    IN SelectSeq(violations, AboutCpu)

\* The cpu violations of section s of container: the one that reports the
\* quantity cpu with its millicores when they are above max_cpu, none when they
\* are not, when the quantity is no number or when cpu is no string
CpuViolationIsExact(violations, max_cpu, name, s, cpu) ==
    /\ cpu.t = "str" => cpu.s \in DOMAIN CpuMillicoresOf \cup CpuUnparseable
    /\ CpuViolationsOf(violations, name, s)
         = IF cpu.t = "str" /\ cpu.s \in DOMAIN CpuMillicoresOf
                /\ CpuMillicoresOf[cpu.s] > max_cpu
           THEN <<"container '" \o name \o "' " \o s \o " cpu '" \o cpu.s \o "' ("
                    \o ToString(CpuMillicoresOf[cpu.s]) \o "m) exceeds maximum allowed "
                    \o ToString(max_cpu) \o "m">>
           ELSE <<>>

\* The request of task t was evaluated by resource_limits with a cpu maximum
CpuMaximumCase(t) ==
    /\ Answered(t)
    /\ IsSome(tasks[t].req.object)
    /\ tasks[t].req.kind \in WorkloadKinds
    /\ cfg.resource_limits.enabled
    /\ cfg.resource_limits.max_cpu_millicores.some

\* The output out of resource_limits reports the cpu quantities of the
\* containers exactly, unless the evaluation unwound
CpuViolationsAreExact(out, max_cpu, containers) ==
    ~out.panicked =>
        \A k \in 1..Len(containers), s \in {"requests", "limits"} :
            CpuViolationIsExact(out.violations, max_cpu, container_name(containers[k]), s,
                                Get(Get(Get(containers[k], "resources"), s), "cpu"))

\* C16: when max_cpu_millicores is set, each requests.cpu and limits.cpu string
\* of a container is converted to millicores (the number before a final 'm',
\* else cores times 1000 in floating point, truncated: "1" and "1000m" are 1000,
\* "0.5" is 500, "1.5" is 1500) and resource_limits reports exactly one
\* violation for that section iff the millicores are greater than the maximum;
\* a quantity that is no number, or a cpu member that is no string, is not
\* reported.
C16_CpuViolationIffAboveMaximum ==
    \A t \in TaskIds :
        CpuMaximumCase(t) =>
            CpuViolationsAreExact(
                OutputOf(t, "resource_limits"), cfg.resource_limits.max_cpu_millicores.v,
                get_containers(get_pod_spec(tasks[t].req.object.data, tasks[t].req.kind)))

\* Under a maximum of 1000m, a pod whose containers declare the cpu quantities
\* "1.001", "1.5", "1000m" and "abc": only the limits of the first container
\* (1500m) are reported.
C16_Witness ==
    \E t \in TaskIds :
        /\ CpuMaximumCase(t)
        /\ ~OutputOf(t, "resource_limits").panicked
        /\ cfg.resource_limits.max_cpu_millicores.v = 1000
        /\ LET containers ==
                   get_containers(get_pod_spec(tasks[t].req.object.data, tasks[t].req.kind))
               violations == OutputOf(t, "resource_limits").violations
           IN /\ Len(containers) = 2
              /\ Get(Get(Get(containers[1], "resources"), "requests"), "cpu") = Str("1.001")
              /\ Get(Get(Get(containers[2], "resources"), "limits"), "cpu") = Str("abc")
              /\ CpuViolationsOf(violations, "x", "requests") = <<>>
              /\ Len(CpuViolationsOf(violations, "x", "limits")) = 1
              /\ CpuViolationsOf(violations, "y", "requests") = <<>>
              /\ CpuViolationsOf(violations, "y", "limits") = <<>>

\* The section is there: an object with at least one member
SectionPresent(v) == v.t = "obj" /\ DOMAIN v.o # {}

\* The 'missing resource' violations of one container
MissingViolationsOf(violations, name) ==
    LET AboutMissing(v) == StartsWith(v, "container '" \o name \o "' missing resource ")
    IN SelectSeq(violations, AboutMissing)

\* The 'missing resource' violations of a container are the one naming what is
\* missing when a section is missing and the violation is not silenced, and none
\* otherwise
MissingViolationIsExact(violations, name, requests, limits, silenced) ==
    MissingViolationsOf(violations, name)
      = IF (SectionPresent(requests) /\ SectionPresent(limits)) \/ silenced THEN <<>>
        ELSE <<"container '" \o name \o "' missing resource "
                 \o (IF SectionPresent(limits) THEN "requests"
                     ELSE IF SectionPresent(requests) THEN "limits"
                     ELSE "requests and limits")>>

\* The request of task t was evaluated by resource_limits
ResourceLimitsCase(t) ==
    /\ Answered(t)
    /\ IsSome(tasks[t].req.object)
    /\ tasks[t].req.kind \in WorkloadKinds
    /\ cfg.resource_limits.enabled

\* The output out of resource_limits reports the missing sections of the
\* containers exactly, unless the evaluation unwound
MissingViolationsAreExact(out, containers, silenced) ==
    ~out.panicked =>
        \A k \in 1..Len(containers) :
            MissingViolationIsExact(out.violations, container_name(containers[k]),
                                    Get(Get(containers[k], "resources"), "requests"),
                                    Get(Get(containers[k], "resources"), "limits"),
                                    silenced)

\* C17: for each container, resource_limits reports exactly one 'missing
\* resource' violation, naming "requests", "limits" or "requests and limits",
\* iff requests or limits is absent or empty (not an object with a member) and
\* not (mutating path and inject_defaults); with both sections present and
\* non-empty, or on the mutating path with inject_defaults, it reports none.
C17_MissingResourceViolation ==
    \A t \in TaskIds :
        ResourceLimitsCase(t) =>
            MissingViolationsAreExact(
                OutputOf(t, "resource_limits"),
                get_containers(get_pod_spec(tasks[t].req.object.data, tasks[t].req.kind)),
                tasks[t].webhook = "mutate" /\ cfg.resource_limits.inject_defaults)

\* On /validate with inject_defaults, a pod of two containers, the first without
\* resources and the second with requests only: one violation each, naming
\* "requests and limits" and "limits".
C17_Witness ==
    \E t \in TaskIds :
        /\ ResourceLimitsCase(t)
        /\ ~OutputOf(t, "resource_limits").panicked
        /\ tasks[t].webhook = "validate"
        /\ cfg.resource_limits.inject_defaults
        /\ LET violations == OutputOf(t, "resource_limits").violations
           IN /\ MissingViolationsOf(violations, "c0")
                   = <<"container 'c0' missing resource requests and limits">>
              /\ MissingViolationsOf(violations, "app")
                   = <<"container 'app' missing resource limits">>

\* ------------------------------------------ specification: image references

\* The image strings of the containers submitted
ImageRefs ==
    { "nginx", "nginx:latest", "nginx:1.25", "myuser/myapp:v2",
      "gcr.io/my-project/my-image:v1.0", "localhost:5000/myimage:v1", "localhost/app",
      "gcr.io/app:v1", "gcr.io.evil.com/app:v1", "docker.io.fake/x@sha256:ab",
      "docker.io/library/nginx@sha256:ab", "gcr.io/proj/app:latest@sha256:ab",
      "quay.io/a/b", "host:5000", "gcr.iox/app:v1", "", "gcr.io/proj/app:v1",
      "localhost:5000/team/app" }

\* What a container's "image" member can be
ImageValues == { Str(i) : i \in ImageRefs } \cup { Absent, Null, Num(5) }

\* Pods of one container "app" with every image value, and Deployments of two
\* containers "a" and "b"
ImageBodies ==
    { OkBody(AdmissionRequest("Pod", "CREATE",
                 DynamicObject(TeamLabels("prod"),
                     Workload("Pod", PodSpec(Arr(<<Container("app", i, Absent)>>), Absent),
                              PodLabels)))) :
        i \in ImageValues }
    \cup
    { OkBody(AdmissionRequest("Deployment", "CREATE",
                 DynamicObject(TeamLabels("prod"),
                     Workload("Deployment",
                              PodSpec(Arr(<<Container("a", p[1], Absent),
                                            Container("b", p[2], Absent)>>), Absent),
                              PodLabels)))) :
        p \in { <<Absent, Str("nginx")>>, <<Str("gcr.io.evil.com/app:v1"), Str("gcr.io/app:v1")>>,
                <<Str("nginx:latest"), Null>> } }

\* The image_registry policy with the default list, with a list of two longer
\* entries and with an empty list
ImageIrChoices ==
    { AllowedRegistries(TRUE, "enforce", FALSE),
      AllowedRegistries(TRUE, "warn", FALSE),
      AllowedRegistries(TRUE, "enforce", TRUE),
      [AllowedRegistries(TRUE, "warn", FALSE) EXCEPT
          !.registries = <<"gcr.io/my-project", "localhost:5000">>],
      [AllowedRegistries(TRUE, "enforce", TRUE) EXCEPT !.registries = <<>>] }

\* image_registry in each of these forms, topology_spread injecting its
\* constraint, the other two policies switched off
ImageConfigs ==
    { PoliciesConfig(ResourceLimits(FALSE, "enforce", FALSE, NoneU64, NoneU64), ir,
                     RequiredLabels(FALSE, "enforce"), TopologySpread(TRUE, "warn", TRUE)) :
        ir \in ImageIrChoices }

InitImages == InitWith(ImageConfigs, ImageBodies)

SpecImages == InitImages /\ [][Next]_vars

\* The request of task t was evaluated by image_registry
ImageRegistryCase(t) ==
    /\ Answered(t)
    /\ IsSome(tasks[t].req.object)
    /\ tasks[t].req.kind \in WorkloadKinds
    /\ cfg.image_registry.enabled

\* The containers of the request of task t
ContainersOf(t) ==
    get_containers(get_pod_spec(tasks[t].req.object.data, tasks[t].req.kind))

\* The violations of one container that report the registry of its image
RegistryViolationsOf(violations, name) ==
    LET AboutRegistry(v) ==
            /\ StartsWith(v, "container '" \o name \o "' image '")
            /\ Contains(v, "' uses registry '")
    IN SelectSeq(violations, AboutRegistry)

\* The registry is the allowed entry itself or begins with the entry and a '/'
EqualOrBelow(registry, allowed) ==
    \/ registry = allowed
    \/ StartsWith(registry, allowed \o "/")

\* C18: registry_matches(r, allowed) holds iff r equals allowed or begins with
\* allowed followed by '/' (a registry that only extends an allowed host name,
\* as gcr.io.evil.com does gcr.io, never matches), and the image of a container
\* is accepted, i.e. gets no registry violation, iff its registry matches at
\* least one entry of the configured list; otherwise it gets exactly one.
C18_RegistryMatchesEqualOrBelow ==
    \A t \in TaskIds :
        ImageRegistryCase(t) =>
            \A k \in 1..Len(ContainersOf(t)) :
                LET image == Get(ContainersOf(t)[k], "image")
                    registry == parse_image_ref(image.s).registry
                    allowed == cfg.image_registry.registries
                    reported ==
                        RegistryViolationsOf(OutputOf(t, "image_registry").violations,
                                             container_name(ContainersOf(t)[k]))
                IN image.t = "str" =>
                       /\ \A a \in 1..Len(allowed) :
                              registry_matches(registry, allowed[a])
                                  <=> EqualOrBelow(registry, allowed[a])
                       /\ \A h \in {"gcr.io", "docker.io", "localhost"} :
                              registry_matches(registry, h) <=> EqualOrBelow(registry, h)
                       /\ Len(reported)
                            = IF \E a \in 1..Len(allowed) : EqualOrBelow(registry, allowed[a])
                              THEN 0 ELSE 1

\* With gcr.io and docker.io allowed, a Deployment whose container "a" runs
\* gcr.io.evil.com/app:v1 and whose container "b" runs gcr.io/app:v1: "a" is
\* reported for its registry and "b" is not.
C18_Witness ==
    \E t \in TaskIds :
        /\ ImageRegistryCase(t)
        /\ cfg.image_registry.registries = <<"gcr.io", "docker.io">>
        /\ Len(ContainersOf(t)) = 2
        /\ Get(ContainersOf(t)[1], "image") = Str("gcr.io.evil.com/app:v1")
        /\ Get(ContainersOf(t)[2], "image") = Str("gcr.io/app:v1")
        /\ Len(RegistryViolationsOf(OutputOf(t, "image_registry").violations, "a")) = 1
        /\ RegistryViolationsOf(OutputOf(t, "image_registry").violations, "b") = <<>>

\* The registry, tag and digest mark of each image reference, derived by hand
ExpectedImageRef ==
    LET Ref(registry, tag, has_digest) ==
            [registry |-> registry, tag |-> tag, has_digest |-> has_digest]
    IN [i \in ImageRefs |->
          CASE i = "nginx" -> Ref("docker.io/library", "", FALSE)
            [] i = "nginx:latest" -> Ref("docker.io/library", "latest", FALSE)
            [] i = "nginx:1.25" -> Ref("docker.io/library", "1.25", FALSE)
            [] i = "myuser/myapp:v2" -> Ref("docker.io/myuser", "v2", FALSE)
            [] i = "gcr.io/my-project/my-image:v1.0" -> Ref("gcr.io/my-project", "v1.0", FALSE)
            [] i = "localhost:5000/myimage:v1" -> Ref("localhost:5000", "v1", FALSE)
            [] i = "localhost/app" -> Ref("localhost", "", FALSE)
            [] i = "gcr.io/app:v1" -> Ref("gcr.io", "v1", FALSE)
            [] i = "gcr.io.evil.com/app:v1" -> Ref("gcr.io.evil.com", "v1", FALSE)
            [] i = "docker.io.fake/x@sha256:ab" -> Ref("docker.io.fake", "", TRUE)
            [] i = "docker.io/library/nginx@sha256:ab" -> Ref("docker.io/library", "", TRUE)
            [] i = "gcr.io/proj/app:latest@sha256:ab" -> Ref("gcr.io/proj", "latest", TRUE)
            [] i = "quay.io/a/b" -> Ref("quay.io/a", "", FALSE)
            [] i = "host:5000" -> Ref("docker.io/library", "5000", FALSE)
            [] i = "gcr.iox/app:v1" -> Ref("gcr.iox", "v1", FALSE)
            [] i = "" -> Ref("docker.io/library", "", FALSE)
            [] i = "gcr.io/proj/app:v1" -> Ref("gcr.io/proj", "v1", FALSE)
            [] i = "localhost:5000/team/app" -> Ref("localhost:5000/team", "", FALSE)]

\* The derivation by segments: the reference up to its first '@' is cut at the
\* '/'s; the tag is what follows the first ':' of the last segment; the name is
\* the rest.
SegmentsOf(image) == Split(Split(image, "@")[1], "/")

TagBySegments(segments) ==
    LET parts == Split(segments[Len(segments)], ":")
    IN IF Len(parts) = 1 THEN "" ELSE Join(Tail(parts), ":")

RegistryBySegments(segments) ==
    IF Len(segments) = 1 THEN "docker.io/library"
    ELSE IF Contains(segments[1], ".") \/ Contains(segments[1], ":")
            \/ segments[1] = "localhost"
    THEN Join(SubSeq(segments, 1, Len(segments) - 1), "/")
    ELSE "docker.io/" \o segments[1]

\* C19: parse_image_ref drops the part from the first '@' on (has_digest set),
\* takes as tag what follows the first ':' after the last '/' (the first ':'
\* when there is no '/'), else the empty string, and as registry
\* "docker.io/library" when the name has no '/', the name up to its last '/'
\* when the first segment contains '.' or ':' or is "localhost", and
\* "docker.io/<first segment>" otherwise (nginx -> docker.io/library,
\* myuser/myapp:v2 -> docker.io/myuser, gcr.io/my-project/my-image:v1.0 ->
\* gcr.io/my-project, localhost:5000/myimage:v1 -> localhost:5000, tag v1).
C19_ParseImageRefDerivation ==
    \A t \in TaskIds :
        ImageRegistryCase(t) =>
            \A k \in 1..Len(ContainersOf(t)) :
                LET image == Get(ContainersOf(t)[k], "image")
                IN image.t = "str" =>
                       /\ image.s \in ImageRefs
                       /\ parse_image_ref(image.s) = ExpectedImageRef[image.s]
                       /\ parse_image_ref(image.s)
                            = [registry |-> RegistryBySegments(SegmentsOf(image.s)),
                               tag |-> TagBySegments(SegmentsOf(image.s)),
                               has_digest |-> Contains(image.s, "@")]

\* A container running localhost:5000/myimage:v1, evaluated against a list that
\* holds localhost:5000: registry localhost:5000, tag v1, nothing reported.
C19_Witness ==
    \E t \in TaskIds :
        /\ ImageRegistryCase(t)
        /\ cfg.image_registry.registries = <<"gcr.io/my-project", "localhost:5000">>
        /\ Len(ContainersOf(t)) = 1
        /\ Get(ContainersOf(t)[1], "image") = Str("localhost:5000/myimage:v1")
        /\ parse_image_ref("localhost:5000/myimage:v1")
             = [registry |-> "localhost:5000", tag |-> "v1", has_digest |-> FALSE]
        /\ OutputOf(t, "image_registry").violations = <<>>

\* The violations of one container that report the tag of its image
TagViolationsOf(violations, name) ==
    LET AboutTag(v) ==
            /\ StartsWith(v, "container '" \o name \o "' image '")
            /\ Contains(v, "' uses tag '")
    IN SelectSeq(violations, AboutTag)

\* Every violation of one container
ViolationsOfContainer(violations, name) ==
    LET About(v) == StartsWith(v, "container '" \o name \o "' ")
    IN SelectSeq(violations, About)

\* The tag violations expected for an image with the given tag and digest mark
ExpectedTagViolations(name, image, ref, allow_latest_tag) ==
    IF allow_latest_tag THEN <<>>
    ELSE IF ref.tag = "latest"
    THEN <<"container '" \o name \o "' image '" \o image \o "' uses tag 'latest'">>
    ELSE IF ref.tag = "" /\ ~ref.has_digest
    THEN <<"container '" \o name \o "' image '" \o image
             \o "' uses tag '<none> (defaults to latest)'">>
    ELSE <<>>

\* C20: with allow_latest_tag=false a container image gets exactly one tag
\* violation iff its tag is "latest" or its tag is empty and the reference has no
\* digest (a digest reference without tag, or any other tag, gets none); with
\* allow_latest_tag=true no tag violation is reported; a container without an
\* image string gets exactly one 'has no image specified' violation and no
\* registry or tag violation.
C20_TagAndMissingImageViolations ==
    \A t \in TaskIds :
        ImageRegistryCase(t) =>
            \A k \in 1..Len(ContainersOf(t)) :
                LET image == Get(ContainersOf(t)[k], "image")
                    name == container_name(ContainersOf(t)[k])
                    violations == OutputOf(t, "image_registry").violations
                IN IF image.t = "str"
                   THEN /\ TagViolationsOf(violations, name)
                             = ExpectedTagViolations(name, image.s, ExpectedImageRef[image.s],
                                   cfg.image_registry.allow_latest_tag)
                        /\ \A j \in 1..Len(violations) :
                               violations[j] # "container '" \o name \o "' has no image specified"
                   ELSE ViolationsOfContainer(violations, name)
                            = <<"container '" \o name \o "' has no image specified">>

\* With allow_latest_tag=false, a Deployment whose container "a" runs
\* nginx:latest and whose container "b" has a null image: one tag violation
\* for "a", one 'has no image specified' for "b", nothing else.
C20_Witness ==
    \E t \in TaskIds :
        /\ ImageRegistryCase(t)
        /\ ~cfg.image_registry.allow_latest_tag
        /\ cfg.image_registry.registries = <<"gcr.io", "docker.io">>
        /\ Len(ContainersOf(t)) = 2
        /\ Get(ContainersOf(t)[1], "image") = Str("nginx:latest")
        /\ Get(ContainersOf(t)[2], "image") = Null
        /\ OutputOf(t, "image_registry").violations
             = <<"container 'a' image 'nginx:latest' uses tag 'latest'",
                 "container 'b' has no image specified">>


\* ------------------------------------------------------ required labels

\* The values the pattern of a required label admits
AdmittedValues(pattern) ==
    IF pattern = "^(prod|dev)$" THEN {"prod", "dev"} ELSE {}

\* What the labels policy is to report about one required label: nothing when
\* the key is present and either no pattern is configured or the value is
\* admitted, else one violation
ExpectedLabelViolation(label, labels, kind, name) ==
    IF labels = Absent \/ label.key \notin DOMAIN labels.m
    THEN <<"missing required label '" \o label.key \o "' on " \o kind \o " '" \o name \o "'">>
    ELSE IF label.pattern # Absent /\ labels.m[label.key] \notin AdmittedValues(label.pattern.s)
    THEN <<"label '" \o label.key \o "' on " \o kind \o " '" \o name \o "' has value '"
             \o labels.m[label.key] \o "' which does not match required pattern '"
             \o label.pattern.s \o "'">>
    ELSE <<>>

RECURSIVE ExpectedLabelViolations(_, _, _, _)
ExpectedLabelViolations(required, labels, kind, name) ==
    IF required = <<>> THEN <<>>
    ELSE ExpectedLabelViolation(Head(required), labels, kind, name)
         \o ExpectedLabelViolations(Tail(required), labels, kind, name)

\* The request of task t carries an object and the labels policy is enabled
LabelsCase(t) ==
    /\ Answered(t)
    /\ IsSome(tasks[t].req.object)
    /\ cfg.labels.enabled

LabelsOutputIsExact(out, required, labels, kind, name) ==
    /\ out.violations = ExpectedLabelViolations(required, labels, kind, name)
    /\ out.patches = <<>>

\* C21: for a request with an object, the labels policy reports, for each
\* configured required label in configuration order, exactly one violation iff
\* the key is missing from object.metadata.labels (or labels is absent) or the
\* key is present, a pattern is configured and the value does not match it; a
\* present key with no pattern or with a matching value yields none; the policy
\* never emits patches.
C21_LabelViolationsPerRequiredLabel ==
    \A t \in TaskIds :
        LabelsCase(t) =>
            LabelsOutputIsExact(OutputOf(t, "labels"), cfg.labels.labels,
                                tasks[t].req.object.labels, tasks[t].req.kind,
                                tasks[t].req.name)

\* An object labelled team=core, env=staging: the key without pattern and the
\* value outside the pattern, one violation, about env
C21_Witness ==
    \E t \in TaskIds :
        /\ LabelsCase(t)
        /\ tasks[t].req.object.labels = TeamLabels("staging")
        /\ Len(OutputOf(t, "labels").violations) = 1
        /\ StartsWith(OutputOf(t, "labels").violations[1], "label 'env' on ")


\* ------------------------------------------------------ topology spread

\* The request of task t was evaluated by topology_spread on a pod spec
TopologySpreadCase(t) ==
    /\ Answered(t)
    /\ IsSome(tasks[t].req.object)
    /\ tasks[t].req.kind \in WorkloadKinds
    /\ cfg.topology_spread.enabled

\* The topologySpreadConstraints member of the pod spec of task t
ConstraintsOf(t) ==
    ValueAt(tasks[t].req.object.data,
            PodSpecLocation(tasks[t].req.kind) \o <<"topologySpreadConstraints">>)

\* The member holds at least one constraint
ConstraintsPresent(constraints) == constraints.t = "arr" /\ constraints.a # <<>>

\* The indices (from 0) of the constraints whose maxSkew is above the maximum
ExceedingIndices(constraints, max_skew) ==
    { i \in 0..(Len(constraints) - 1) :
        /\ Get(constraints[i + 1], "maxSkew").t = "num"
        /\ Get(constraints[i + 1], "maxSkew").n > max_skew }

\* v is about the constraint of index i
IsSkewViolationOf(v, i, kind) ==
    StartsWith(v, "topologySpreadConstraints[" \o ToString(i) \o "] on " \o kind \o " '")
      /\ Contains(v, " has maxSkew=")

\* One violation per exceeding constraint, by ascending index, and nothing else
SkewViolationsAreExact(violations, constraints, max_skew, kind) ==
    LET exceeding == ExceedingIndices(constraints, max_skew)
    IN /\ Len(violations) = Cardinality(exceeding)
       /\ \A i \in exceeding : \E j \in 1..Len(violations) :
              IsSkewViolationOf(violations[j], i, kind)
       /\ \A j, k \in 1..Len(violations) : \A i1, i2 \in exceeding :
              (j < k /\ IsSkewViolationOf(violations[j], i1, kind)
                     /\ IsSkewViolationOf(violations[k], i2, kind)) => i1 < i2

\* p adds, at loc/topologySpreadConstraints, an array of one constraint carrying
\* the configured maxSkew, topologyKey and whenUnsatisfiable and a labelSelector
IsInjectedConstraint(p, loc, config) ==
    /\ p.op = "add"
    /\ p.path = loc \o <<"topologySpreadConstraints">>
    /\ p.value.t = "arr"
    /\ Len(p.value.a) = 1
    /\ p.value.a[1].t = "obj"
    /\ DOMAIN p.value.a[1].o = {"maxSkew", "topologyKey", "whenUnsatisfiable", "labelSelector"}
    /\ p.value.a[1].o["maxSkew"] = Num(config.max_skew)
    /\ p.value.a[1].o["topologyKey"] = Str(config.topology_key)
    /\ p.value.a[1].o["whenUnsatisfiable"] = Str(config.when_unsatisfiable)
    /\ DOMAIN p.value.a[1].o["labelSelector"].o = {"matchLabels"}

TopologySpreadOutputIsExact(out, constraints, loc, config, kind, name, mutating) ==
    IF ConstraintsPresent(constraints)
    THEN /\ out.patches = <<>>
         /\ SkewViolationsAreExact(out.violations, constraints.a, config.max_skew, kind)
    ELSE /\ out.violations
              = IF mutating /\ config.inject_if_missing THEN <<>>
                ELSE <<kind \o " '" \o name \o "' has no topologySpreadConstraints">>
         /\ IF config.inject_if_missing
            THEN Len(out.patches) = 1 /\ IsInjectedConstraint(out.patches[1], loc, config)
            ELSE out.patches = <<>>

\* C22: when the pod spec's topologySpreadConstraints is absent or empty (not an
\* array with an element), topology_spread reports the 'has no
\* topologySpreadConstraints' violation iff not (mutating path and
\* inject_if_missing) and emits exactly one add at
\* <prefix>/topologySpreadConstraints, a one-element array with the configured
\* maxSkew, topologyKey, whenUnsatisfiable and a labelSelector, iff
\* inject_if_missing; when constraints are present and non-empty it emits no
\* patch and one violation per element whose maxSkew exceeds config.max_skew.
C22_TopologySpreadViolationsAndPatch ==
    \A t \in TaskIds :
        TopologySpreadCase(t) =>
            TopologySpreadOutputIsExact(
                OutputOf(t, "topology_spread"), ConstraintsOf(t),
                PodSpecLocation(tasks[t].req.kind), cfg.topology_spread,
                tasks[t].req.kind, tasks[t].req.name, tasks[t].webhook = "mutate")

\* On /validate with inject_if_missing, a Deployment without constraints gets
\* the violation and the patch at spec/template/spec/topologySpreadConstraints.
C22_Witness ==
    \E t \in TaskIds :
        /\ TopologySpreadCase(t)
        /\ tasks[t].webhook = "validate"
        /\ tasks[t].req.kind = "Deployment"
        /\ cfg.topology_spread.inject_if_missing
        /\ ConstraintsOf(t) = Absent
        /\ Len(OutputOf(t, "topology_spread").violations) = 1
        /\ Len(OutputOf(t, "topology_spread").patches) = 1
        /\ OutputOf(t, "topology_spread").patches[1].path
             = <<"spec", "template", "spec", "topologySpreadConstraints">>


\* ------------------------------------------------- warnings of a response

\* The warnings a policy contributes: its violations, each prefixed with the
\* policy's name, when the policy is enabled in warn mode
WarningsOfPolicy(name, out) ==
    IF cfg[name].enabled /\ cfg[name].mode = "warn"
    THEN [k \in 1..Len(out.violations) |-> name \o ": " \o out.violations[k]]
    ELSE <<>>

\* The response carries exactly the warnings, and no warnings field without any
CarriesWarnings(resp, warnings) ==
    IF warnings = <<>> THEN ~resp.warnings.some
    ELSE resp.warnings.some /\ resp.warnings.v = warnings

\* C23: every response built from engine results (plain allow, allow with patch
\* or denial) carries all warnings produced by the warn-mode policies,
\* concatenated in policy order; a denial caused by an enforce-mode policy does
\* not drop them, and a response with no warnings has no warnings field.
C23_ResponseCarriesAllWarnings ==
    \A t \in TaskIds :
        Answered(t) =>
            CarriesWarnings(
                tasks[t].reply.response,
                WarningsOfPolicy("resource_limits", OutputOf(t, "resource_limits"))
                  \o WarningsOfPolicy("image_registry", OutputOf(t, "image_registry"))
                  \o WarningsOfPolicy("labels", OutputOf(t, "labels"))
                  \o WarningsOfPolicy("topology_spread", OutputOf(t, "topology_spread")))

\* A denial by the enforced image_registry whose response carries the warning
\* of labels in warn mode
C23_Witness ==
    \E t \in TaskIds :
        /\ Answered(t)
        /\ cfg.image_registry.enabled /\ cfg.image_registry.mode = "enforce"
        /\ cfg.labels.enabled /\ cfg.labels.mode = "warn"
        /\ ~tasks[t].reply.response.allowed
        /\ StartsWith(tasks[t].reply.response.message, "image_registry: ")
        /\ tasks[t].reply.response.warnings.some
        /\ \E k \in 1..Len(tasks[t].reply.response.warnings.v) :
               StartsWith(tasks[t].reply.response.warnings.v[k],
                          "labels: missing required label 'env' on ")


\* ------------------------------------------- suppressed violations and fixes

\* The elements of a sequence
Range(s) == { s[k] : k \in 1..Len(s) }

\* The request of task t with its object replaced by doc
RequestWith(t, doc) == [tasks[t].req EXCEPT !.object.data = doc]

\* resource_limits kept a 'missing resource' violation back on the mutating path
ResourceViolationSuppressed(t) ==
    /\ ResourceLimitsCase(t)
    /\ tasks[t].webhook = "mutate"
    /\ cfg.resource_limits.inject_defaults
    /\ \E v \in Range(resource_limits_evaluate(cfg.resource_limits, tasks[t].req, FALSE,
                                               server.overflow_checks).violations) :
           Contains(v, " missing resource ")

\* topology_spread kept the 'has no topologySpreadConstraints' violation back
ConstraintViolationSuppressed(t) ==
    /\ TopologySpreadCase(t)
    /\ tasks[t].webhook = "mutate"
    /\ cfg.topology_spread.inject_if_missing
    /\ ~ConstraintsPresent(ConstraintsOf(t))

\* The patch applies and the validating path of resource_limits finds no
\* missing resource on the result
ResourcePatchFixes(t, applied) ==
    /\ applied.ok
    /\ \A v \in Range(resource_limits_evaluate(cfg.resource_limits,
                                               RequestWith(t, applied.doc), FALSE,
                                               server.overflow_checks).violations) :
           ~Contains(v, " missing resource ")

\* The patch applies and the validating path of topology_spread finds the
\* constraints on the result
ConstraintPatchFixes(t, applied) ==
    /\ applied.ok
    /\ \A v \in Range(topology_spread_evaluate(cfg.topology_spread,
                                               RequestWith(t, applied.doc), FALSE).violations) :
           ~Contains(v, " has no topologySpreadConstraints")

\* C24: whenever the mutating path suppresses a 'missing' violation because a
\* patch will fix it (resource_limits with inject_defaults, topology_spread with
\* inject_if_missing), applying the patches the policy emitted for that request
\* to the object succeeds and yields an object on which the validating path of
\* the same policy reports no 'missing resource' / 'has no
\* topologySpreadConstraints' violation, for every shape of resources, requests,
\* limits and topologySpreadConstraints.
C24_SuppressedViolationIsFixedByPatch ==
    \A t \in TaskIds :
        /\ ResourceViolationSuppressed(t) =>
               ResourcePatchFixes(t, ApplyPatch(tasks[t].req.object.data,
                                                OutputOf(t, "resource_limits").patches))
        /\ ConstraintViolationSuppressed(t) =>
               ConstraintPatchFixes(t, ApplyPatch(tasks[t].req.object.data,
                                                  OutputOf(t, "topology_spread").patches))

\* requests and limits of every container are absent or objects
SectionsAreObjects(t) ==
    LET containers == get_containers(get_pod_spec(tasks[t].req.object.data, tasks[t].req.kind))
    IN \A k \in 1..Len(containers) : \A s \in {"requests", "limits"} :
           Get(Get(containers[k], "resources"), s).t \in {"absent", "obj"}

\* The patches do fix the object when no container has a requests or limits
\* member that is not an object.
SuppressedViolationIsFixedForObjectSections ==
    \A t \in TaskIds :
        /\ (ResourceViolationSuppressed(t) /\ SectionsAreObjects(t)) =>
               ResourcePatchFixes(t, ApplyPatch(tasks[t].req.object.data,
                                                OutputOf(t, "resource_limits").patches))
        /\ ConstraintViolationSuppressed(t) =>
               ConstraintPatchFixes(t, ApplyPatch(tasks[t].req.object.data,
                                                  OutputOf(t, "topology_spread").patches))


\* ------------------------------------------------ injected label selector

\* Where the pod template that holds the pod spec of a kind lies (no template
\* for a Pod: the object itself carries the labels)
TemplateLocation(kind) ==
    IF kind = "CronJob" THEN <<"spec", "jobTemplate", "spec", "template">>
    ELSE <<"spec", "template">>

\* The labels of the pods the pod spec of task t describes, as a JSON object
LabelsOfPodTemplate(t) ==
    LET object == tasks[t].req.object
        l == ValueAt(object.data, TemplateLocation(tasks[t].req.kind) \o <<"metadata", "labels">>)
    IN IF tasks[t].req.kind = "Pod"
       THEN (IF object.labels = Absent THEN EmptyObj
             ELSE Obj([k \in DOMAIN object.labels.m |-> Str(object.labels.m[k])]))
       ELSE IF l = Absent THEN EmptyObj ELSE l

\* topology_spread injects a constraint for the request of task t
InjectionCase(t) ==
    /\ TopologySpreadCase(t)
    /\ cfg.topology_spread.inject_if_missing
    /\ ~ConstraintsPresent(ConstraintsOf(t))

\* labelSelector.matchLabels of the injected constraint
InjectedMatchLabels(out) ==
    ValueAt(out.patches[1].value.a[1], <<"labelSelector", "matchLabels">>)

\* C25: for every workload kind of the table, labelSelector.matchLabels of the
\* injected topology spread constraint equals the labels of the pod template
\* that belongs to the pod spec being patched (metadata.labels for a Pod, the
\* template metadata next to the pod spec for the other kinds), and is the
\* empty map only when those labels are absent.
C25_SelectorMatchesPodTemplateLabels ==
    \A t \in TaskIds :
        InjectionCase(t) =>
            InjectedMatchLabels(OutputOf(t, "topology_spread")) = LabelsOfPodTemplate(t)

\* The selector is the template's labels for every kind but CronJob.
SelectorMatchesPodTemplateLabelsExceptCronJob ==
    \A t \in TaskIds :
        (InjectionCase(t) /\ tasks[t].req.kind # "CronJob") =>
            InjectedMatchLabels(OutputOf(t, "topology_spread")) = LabelsOfPodTemplate(t)

\* The selector injected into a CronJob is empty although its pod template is
\* labelled.
CronJobSelectorIsEmpty ==
    \A t \in TaskIds :
        (InjectionCase(t) /\ tasks[t].req.kind = "CronJob") =>
            /\ LabelsOfPodTemplate(t) = PodLabels
            /\ InjectedMatchLabels(OutputOf(t, "topology_spread")) = EmptyObj


\* ------------------------------------------- validating and mutating paths

\* a can be obtained from b by leaving elements out
RECURSIVE IsSubsequence(_, _)
IsSubsequence(a, b) ==
    IF a = <<>> THEN TRUE
    ELSE IF b = <<>> THEN FALSE
    ELSE IF Head(a) = Head(b) THEN IsSubsequence(Tail(a), Tail(b))
    ELSE IsSubsequence(a, Tail(b))

\* What policy name reports for the request of task t on the given path
OutputOn(t, name, mutating) ==
    EvaluatePolicy(cfg, name, tasks[t].req, mutating, server.overflow_checks)

\* Whether the webhook answers the evaluation ev of a request with an allow
AllowedBy(req, ev, wh) ==
    ev.panicked \/ build_response(req, ev.results, wh).allowed

\* Whether the request of task t is allowed on the given webhook
AllowedOn(t, wh) ==
    AllowedBy(tasks[t].req, Evaluate(cfg, tasks[t].req, wh, server.overflow_checks), wh)

MutatingOnlySuppresses(on_mutate, on_validate) ==
    /\ on_mutate.panicked = on_validate.panicked
    /\ IsSubsequence(on_mutate.violations, on_validate.violations)

\* C26: for the same configuration and the same request, each policy's
\* violation sequence on the mutating path is a subsequence of its violation
\* sequence on the validating path; hence a request that /validate allows is
\* never denied by /mutate (the answer task t got on its own webhook is compared
\* with the answer of the other webhook to the same request).
C26_MutateViolationsWithinValidate ==
    \A t \in TaskIds :
        Evaluated(t) =>
            /\ \A k \in 1..Len(PolicyNames) :
                   MutatingOnlySuppresses(OutputOn(t, PolicyNames[k], TRUE),
                                          OutputOn(t, PolicyNames[k], FALSE))
            /\ (tasks[t].webhook = "validate" /\ tasks[t].reply.response.allowed)
                   => AllowedOn(t, "mutate")
            /\ (tasks[t].webhook = "mutate" /\ ~tasks[t].reply.response.allowed)
                   => ~AllowedOn(t, "validate")

\* A request /mutate allows with a patch and /validate denies: resource_limits
\* reports fewer violations on the mutating path.
C26_Witness ==
    \E t \in TaskIds :
        /\ Answered(t)
        /\ tasks[t].webhook = "mutate"
        /\ tasks[t].reply.response.allowed
        /\ tasks[t].reply.response.patch.some
        /\ ~AllowedOn(t, "validate")
        /\ Len(OutputOn(t, "resource_limits", TRUE).violations)
             < Len(OutputOn(t, "resource_limits", FALSE).violations)


\* ------------------------------------- specification: concurrent requests

\* resource_limits in warn mode with a maximum whose byte value does not fit 64
\* bits (the evaluation unwinds in a build with overflow checks), labels
\* enforced
MetricsConfigs ==
    { PoliciesConfig(ResourceLimits(TRUE, "warn", FALSE, NoneU64, SomeU64(HugeMemoryMb)),
                     AllowedRegistries(FALSE, "enforce", FALSE),
                     RequiredLabels(TRUE, "enforce"),
                     TopologySpread(FALSE, "enforce", FALSE)) }

\* A labelled Pod, an unlabelled Pod, a DELETE without object, and two bodies
\* that do not decode
MetricsBodies ==
    { OkBody(AdmissionRequest("Pod", "CREATE",
                 DynamicObject(labels, Workload("Pod", PodSpec(Arr(BareContainers(1)), Absent),
                                                PodLabels)))) :
        labels \in {TeamLabels("prod"), Absent} }
    \cup { OkBody(AdmissionRequest("Pod", "DELETE", Absent)),
           BadBody("not_review", "missing field apiVersion"),
           BadBody("not_json", "") }

\* The serving process with one open connection per connection task
InitMetrics ==
    /\ cfg \in MetricsConfigs
    /\ tasks = [t \in TaskIds |-> [IdleTask EXCEPT !.pc = "open"]]
    /\ metrics = NoMetrics
    /\ server \in { [Serving(overflow_checks) EXCEPT !.accepts = Cardinality(TaskIds)] :
                      overflow_checks \in BOOLEAN }

\* The connection tasks run side by side, each through one request
NextMetrics ==
    \E t \in TaskIds :
        \/ \E w \in Webhooks, body \in MetricsBodies : Dispatch(t, w, body)
        \/ Extract(t)
        \/ HandleDecode(t)
        \/ HandleEvaluate(t)
        \/ WriteResponse(t)

SpecMetrics == InitMetrics /\ [][NextMetrics]_vars

\* The tasks whose request decoded to an AdmissionRequest
DecodedTasks == { t \in TaskIds : tasks[t].req # Absent }

\* ... and whose handler has returned
HandledTasks == { t \in DecodedTasks : tasks[t].pc \in {"write", "done"} }

RequestLabelSets ==
    { <<op, "workloads", w>> : op \in {"CREATE", "DELETE"}, w \in Webhooks }

ResponseLabelSets == { <<a, w>> : a \in {"true", "false"}, w \in Webhooks }

\* Every count of the three families is the number of tasks it is owed to
CountsMatchTasks(m, decoded, handled) ==
    /\ DOMAIN m.admission_requests_total \subseteq RequestLabelSets
    /\ DOMAIN m.admission_responses_total \subseteq ResponseLabelSets
    /\ DOMAIN m.admission_request_duration_seconds \subseteq { <<w>> : w \in Webhooks }
    /\ \A l \in RequestLabelSets :
           Count(m.admission_requests_total, l)
             = Cardinality({ t \in decoded :
                   <<tasks[t].req.operation, tasks[t].req.resource, tasks[t].webhook>> = l })
    /\ \A a \in BOOLEAN, w \in Webhooks :
           Count(m.admission_responses_total, <<IF a THEN "true" ELSE "false", w>>)
             = Cardinality({ t \in handled :
                   tasks[t].webhook = w /\ tasks[t].reply.response.allowed = a })
    /\ \A w \in Webhooks :
           Count(m.admission_request_duration_seconds, <<w>>)
             = Cardinality({ t \in handled : tasks[t].webhook = w })

\* C27: with requests handled concurrently, each request that decodes to an
\* AdmissionRequest has incremented the request counter exactly once and, once
\* its handler has returned, the response counter exactly once (with the allowed
\* value actually returned) and the request-duration histogram exactly once, on
\* the normal path and on the fail-open path alike; a request that fails
\* decoding changes no metric; once all requests have completed, the total of
\* the request counters equals the total of the response counters.
C27_MetricsCountEachRequestOnce ==
    /\ CountsMatchTasks(metrics, DecodedTasks, HandledTasks)
    /\ (\A t \in TaskIds : tasks[t].pc \notin HandlerPcs) =>
           Total(metrics.admission_requests_total)
             = Total(metrics.admission_responses_total)

\* Both requests completed, one denied on the normal path of /validate and one
\* that failed decoding: one request counted, one response counted as denied.
C27_Witness ==
    /\ \A t \in TaskIds : tasks[t].pc = "done"
    /\ \E t \in TaskIds :
           /\ tasks[t].req # Absent
           /\ tasks[t].webhook = "validate"
           /\ ~tasks[t].results.panicked
           /\ ~tasks[t].reply.response.allowed
    /\ \E t \in TaskIds : tasks[t].req = Absent /\ tasks[t].body.class = "not_review"
    /\ Total(metrics.admission_requests_total) = 1
    /\ Count(metrics.admission_responses_total, <<"false", "validate">>) = 1

\* Two requests of /mutate answered fail-open: both counted as allowed.
FailOpenCounted ==
    /\ \A t \in TaskIds :
           tasks[t].pc = "done" /\ tasks[t].results.panicked /\ tasks[t].webhook = "mutate"
    /\ Count(metrics.admission_responses_total, <<"true", "mutate">>) = 2
    /\ Count(metrics.admission_request_duration_seconds, <<"mutate">>) = 2


\* --------------------------------------- panic points of resource_limits

\* No container of the sequence brings the evaluation to unreachable!() or to a
\* failing unwrap, on either path
NoPanicPoint(config, containers) ==
    \A k \in 1..Len(containers) :
        /\ \A mutating \in BOOLEAN : ~ReachesUnreachable(config, containers[k], mutating)
        /\ ~UnwrapFails(containers[k])
        /\ \A mutating \in BOOLEAN :
               MissingMatchEntered(config, containers[k], mutating) =>
                   \/ ~NonEmptyObject(Get(Get(containers[k], "resources"), "requests"))
                   \/ ~NonEmptyObject(Get(Get(containers[k], "resources"), "limits"))

\* C28: the evaluation of resource_limits never reaches its unreachable!() arm
\* nor fails the unwrap of the container's resources, for any object tree and
\* configuration: the match on (has_requests, has_limits) is entered only when
\* one of them is false, resources is unwrapped only when it is a non-empty
\* object, and an evaluation that unwinds does so in the memory arithmetic of a
\* build with overflow checks.
C28_NoUnreachableNoFailedUnwrap ==
    \A t \in TaskIds :
        (Evaluated(t) /\ IsSome(tasks[t].req.object) /\ cfg.resource_limits.enabled) =>
            /\ NoPanicPoint(cfg.resource_limits,
                   get_containers(get_pod_spec(tasks[t].req.object.data, tasks[t].req.kind)))
            /\ tasks[t].results.panicked =>
                   (server.overflow_checks /\ cfg.resource_limits.max_memory_mb.some)

\* On /validate with inject_defaults, a pod of two containers: the first has no
\* resources (the match is entered, the patch returns early), the second has
\* requests only (the match is entered, resources is unwrapped).
C28_Witness ==
    \E t \in TaskIds :
        /\ ResourceLimitsCase(t)
        /\ tasks[t].webhook = "validate"
        /\ cfg.resource_limits.inject_defaults
        /\ LET containers == get_containers(get_pod_spec(tasks[t].req.object.data,
                                                         tasks[t].req.kind))
           IN /\ Len(containers) = 2
              /\ Get(containers[1], "resources") = Absent
              /\ MissingMatchEntered(cfg.resource_limits, containers[1], FALSE)
              /\ NonEmptyObject(Get(containers[2], "resources"))
              /\ MissingMatchEntered(cfg.resource_limits, containers[2], FALSE)
              /\ Len(OutputOf(t, "resource_limits").patches) = 3

====
